---- MODULE Spec2Model ----
(***************************************************************************)
(* Verification model of the alchemy-dash analytics dashboard:             *)
(*   - RangeSlider (src/src/app/v2/page.tsx), the dual-thumb range control *)
(*   - V2Page's slider value <-> date conversion                           *)
(*   - Dashboard (src/unnamed/part_000): aggregation, ranking, growth      *)
(*     comparison, cross-filter cards and the asynchronous fetch effects   *)
(*                                                                         *)
(* Each component has its own specification (SpecSlider, SpecDate, ...).   *)
(* The variables of the other components are held at their initial value.  *)
(***************************************************************************)
EXTENDS Integers, Sequences, FiniteSets, TLC

VARIABLES
    \* ---- RangeSlider ----
    props,        \* [min, max, step, minGap]: the props of this mounting
    left,         \* useState left
    right,        \* useState right
    activeThumb,  \* useRef: "none" (null) | "left" | "right"
    listeners,    \* window listeners: sequence of registered
                  \* (handlePointerMove, stopDragging) pairs, each with the
                  \* left/right its closure captured
    lastEvent,    \* the DOM event handled last
    pointerValue, \* clientXToValue of the pointer at that event
    \* ---- ranking (Dashboard) ----
    chain,        \* useState chain: the selected (home) chain
    peers,        \* one country's / category's chain -> users object, as its
                  \* entries in insertion order
    ranks,        \* the rank each ranking site computed (0: not computed yet)
    \* ---- growth effect and cross-filter cards (Dashboard) ----
    startDate,    \* useState startDate: a calendar day (days since DATE_START)
    endDate,      \* useState endDate
    prior,        \* the prior period [ps, pe] the growth effect computed
    table,        \* rows of aggregated_country_chain_category for the chain
    filteredByCategory,   \* useState, "" when unset
    filteredByCountry,    \* useState, "" when unset
    growth,       \* the state the growth effect sets, with its currSum / prevSum
    \* ---- slider value <-> date (V2Page, Dashboard) ----
    tz,           \* the browser's local UTC offset in ms (east positive)
    sliderIn,     \* a slider value handed to handleSliderChange
    dateIn,       \* a date typed into the date input
    v2d,          \* <<date, value>>: sliderIn as a date, and back
    d2v,          \* <<value, date>>: dateIn as a slider value, and back
    dash,         \* <<date>>: sliderIn as a date of the Dashboard
    \* ---- Dashboard fetch effects ----
    data,             \* the rows a query returned (aggregation runs)
    selectedCountry,  \* useState, "" for null
    selectedCategory, \* useState, "" for null
    rawData,          \* useState: Null, or <<buckets by date>>
    mapCountryData,   \* useState: country -> totals object
    totalApiRequests, \* useState
    startSliderValue, \* useState
    sliderValue,      \* useState
    loading,          \* useState
    fetchError,       \* useState, "" for null
    mapLoading,       \* useState
    mapError,         \* useState, "" for null
    mounted,          \* the mount effects have run
    rangeInput,       \* the last change event of a range input: its thumb
                      \* and e.target.value
    inflight,         \* the fetches awaiting their response, with the values
                      \* their effect closed over
    observed,         \* the effects whose requests the run follows
    issued,           \* per effect: number of requests issued so far
    failure,          \* per effect: the message its data source returned to
                      \* the last run that ended, "" when that run got rows
    writer,           \* per effect: the request whose response last set the view
    \* ---- V2Page: date range, RangeSlider notification, selected country ----
    today,            \* new Date() of the session, in ms
    startDateV2,      \* useState startDate of V2Page: a calendar day
    endDateV2,        \* useState endDate of V2Page
    rendered,         \* V2Page has rendered (a new handleSliderChange) since
                      \* the RangeSlider onChange effect last ran
    notified,         \* the <<left, right>> the onChange effect last ran with
    quickRange,       \* <<newStartDate, newEndDate>> of the quick-range button
                      \* pressed last
    selectedCountryV2,    \* useState selectedCountry of V2Page, "" for null
    countryCategoryData,  \* useState: category -> totals object
    countryDappData,      \* useState: the aggregated dapps, sorted
    requests,         \* the per-country queries awaiting their response
    clicks,           \* number of country clicks so far
    served            \* per view: the <<start, end>> of the query whose rows
                      \* it shows, <<>> when it shows none

sliderVars == <<props, left, right, activeThumb, listeners, lastEvent, pointerValue>>
rankVars == <<chain, peers, ranks>>
growthVars == <<startDate, endDate, prior, table, filteredByCategory, filteredByCountry, growth>>

dateVars == <<tz, sliderIn, dateIn, v2d, d2v, dash>>

viewVars == <<rawData, mapCountryData, totalApiRequests, loading, fetchError,
              mapLoading, mapError>>

fetchVars == <<startSliderValue, sliderValue, mounted, rangeInput, inflight, observed,
               issued, failure, writer>>

dashVars == <<data, selectedCountry, selectedCategory, viewVars, fetchVars>>

pageVars == <<today, startDateV2, endDateV2, rendered, notified, quickRange,
              selectedCountryV2, countryCategoryData, countryDappData, requests,
              clicks, served>>

vars == <<sliderVars, rankVars, growthVars, dateVars, dashVars, pageVars>>

\* what the handlers of one component leave alone
nonSliderVars == <<rankVars, growthVars, dateVars, dashVars, pageVars>>
nonRankVars == <<sliderVars, growthVars, dateVars, dashVars, pageVars>>
nonGrowthVars == <<sliderVars, rankVars, dateVars, dashVars, pageVars>>
nonDateVars == <<sliderVars, rankVars, growthVars, dashVars, pageVars>>

\* what the handlers of V2Page leave alone, besides props, left and right
nonPageVars == <<activeThumb, listeners, pointerValue, rankVars, growthVars,
                 dateVars, dashVars>>

(***************************************************************************)
(* Bounds                                                                  *)
(***************************************************************************)
SliderMax == 4      \* the max prop explored
MaxGap == 1         \* largest minGap prop explored
ThumbReach == 1     \* how far (in slider units) from a thumb's value the
                    \* pointer can be while still pressing that thumb

(***************************************************************************)
(* RangeSlider helpers                                                     *)
(***************************************************************************)
MathMin(a, b) == IF a < b THEN a ELSE b
MathMax(a, b) == IF a > b THEN a ELSE b
MathAbs(a) == IF a < 0 THEN -a ELSE a

\* Math.round(n / d) for integers n and d > 0: round half up
MathRoundDiv(n, d) == (n + d \div 2) \div d

clamp(v, lo, hi) == MathMin(hi, MathMax(lo, v))

snap(v) == MathRoundDiv(v, props.step) * props.step

\* the values clientXToValue can return: snap(clamp(raw, min, max))
clientXToValue == { snap(x) : x \in props.min .. props.max }

\* the closure of the current render: the handlePointerMove / stopDragging it
\* creates see the left and right of that render
CurrentClosure == [left |-> left, right |-> right]

\* (mutation: on a tie the right thumb moves)
trackPointerDownStrict(v) ==
    IF MathAbs(v - left) < MathAbs(v - right)
    THEN <<clamp(v, props.min, right - props.minGap), right>>
    ELSE <<left, clamp(v, left + props.minGap, props.max)>>

\* track onPointerDown: the nearest thumb moves to v; result <<left, right>>
trackPointerDown(v) ==
    IF MathAbs(v - left) <= MathAbs(v - right)
    THEN <<clamp(v, props.min, right - props.minGap), right>>
    ELSE <<left, clamp(v, left + props.minGap, props.max)>>

\* one registered handlePointerMove, run on the pair <<l, r>> of pending state
handlePointerMove(c, v, lr) ==
    IF activeThumb = "none" THEN lr
    ELSE IF activeThumb = "left"
         THEN <<clamp(v, props.min, c.right - props.minGap), lr[2]>>
         ELSE <<lr[1], clamp(v, c.left + props.minGap, props.max)>>

RECURSIVE DispatchPointerMove(_, _, _)
DispatchPointerMove(ls, v, lr) ==
    IF ls = <<>> THEN lr
    ELSE DispatchPointerMove(Tail(ls), v, handlePointerMove(Head(ls), v, lr))

Keys == {"ArrowLeft", "ArrowRight", "PageDown", "PageUp", "Home", "End", "Other"}

\* (mutation: PageUp and PageDown move by one step)
deltaSmall(dir, big) == dir * props.step

delta(dir, big) == dir * (IF big THEN props.step * 10 ELSE props.step)

\* onKeyDown(which): the value next before snapping; "Other" returns early
keyNext(which, key) ==
    LET cur == IF which = "left" THEN left ELSE right IN
    CASE key = "ArrowLeft"  -> cur - delta(1, FALSE)
      [] key = "ArrowRight" -> cur + delta(1, FALSE)
      [] key = "PageDown"   -> cur - delta(1, TRUE)
      [] key = "PageUp"     -> cur + delta(1, TRUE)
      [] key = "Home"       -> IF which = "left" THEN props.min ELSE left + props.minGap
      [] key = "End"        -> IF which = "right" THEN props.max ELSE right - props.minGap
      [] OTHER              -> cur

(***************************************************************************)
(* Ranking: strings, the chain -> users object and the rank loops          *)
(***************************************************************************)
MaxPeers == 3       \* chains in one country's / category's object
MaxUsers == 2       \* largest summed users value

\* chain identifiers as the data source and sessionStorage spell them
ChainNames ==
    { <<"e", "t", "h">>, <<"E", "t", "h">>, <<"E", "T", "H">>,
      <<"p", "o", "l">>, <<"P", "o", "l">> }

toLowerCaseChar(c) ==
    CASE c = "E" -> "e" [] c = "T" -> "t" [] c = "H" -> "h" [] c = "P" -> "p"
      [] OTHER -> c

toLowerCase(str) == [i \in 1 .. Len(str) |-> toLowerCaseChar(str[i])]

\* Object.values(chains)
ObjectValues(obj) == [i \in 1 .. Len(obj) |-> obj[i].users]

\* Array.prototype.sort((a, b) => b - a): descending insertion
RECURSIVE InsertDesc(_, _)
InsertDesc(x, sorted) ==
    IF sorted = <<>> THEN <<x>>
    ELSE IF x > Head(sorted) THEN <<x>> \o sorted
         ELSE <<Head(sorted)>> \o InsertDesc(x, Tail(sorted))

RECURSIVE SortDesc(_)
SortDesc(xs) == IF xs = <<>> THEN <<>> ELSE InsertDesc(Head(xs), SortDesc(Tail(xs)))

\* let rank = 1; for (i ...) { if (counts[i] > selected) rank++; else break; }
RECURSIVE RankLoop(_, _)
RankLoop(counts, selected) ==
    IF counts = <<>> THEN 1
    ELSE IF Head(counts) > selected THEN 1 + RankLoop(Tail(counts), selected)
         ELSE 1

\* (mutation: the sort is forgotten)
RankOfUnsorted(obj, selectedChainUsers) == RankLoop(ObjectValues(obj), selectedChainUsers)

\* the rank computation shared by all sites: sort descending, then count
RankOf(obj, selectedChainUsers) == RankLoop(SortDesc(ObjectValues(obj)), selectedChainUsers)

\* Object.entries(chains).forEach(([dbChain, users]) => { if (dbChain.toLowerCase()
\* === normalizedChain) selectedChainUsers = users; }): the last match stays
RECURSIVE LastMatchUsers(_, _, _)
LastMatchUsers(obj, normalizedChain, acc) ==
    IF obj = <<>> THEN acc
    ELSE LastMatchUsers(Tail(obj), normalizedChain,
            IF toLowerCase(Head(obj).chain) = normalizedChain THEN Head(obj).users ELSE acc)

\* Object.keys(chains).find(k => k.toLowerCase() === chain.toLowerCase()), then
\* selectedChainKey ? chains[selectedChainKey] : 0: the first match
RECURSIVE FirstMatchUsers(_, _)
FirstMatchUsers(obj, c) ==
    IF obj = <<>> THEN 0
    ELSE IF toLowerCase(Head(obj).chain) = toLowerCase(c) THEN Head(obj).users
         ELSE FirstMatchUsers(Tail(obj), c)

\* chainsInCountry[chain] || 0: an exact-key lookup
RECURSIVE ExactKeyUsers(_, _)
ExactKeyUsers(obj, c) ==
    IF obj = <<>> THEN 0
    ELSE IF Head(obj).chain = c THEN Head(obj).users ELSE ExactKeyUsers(Tail(obj), c)

\* (mutation: the selected chain is looked up by its exact spelling)
countryRowChainUsersExact(obj, c) == ExactKeyUsers(obj, c)

\* fetchCountryData, rows of the country table: selectedChainUsers
countryRowChainUsers(obj, c) == LastMatchUsers(obj, toLowerCase(c), 0)

\* fetchCategoryData: selectedChainUsers
categoryRowChainUsers(obj, c) == LastMatchUsers(obj, toLowerCase(c), 0)

\* fetchMapCategoryData: selectedChainUsers
mapCategoryChainUsers(obj, c) == FirstMatchUsers(obj, c)

\* fetchCountryData: the local countryRankings (computed, never read)
countryRankings(obj, c) == RankOf(obj, ExactKeyUsers(obj, c))

PeerObjects ==
    UNION { { o \in [1 .. n -> [chain : ChainNames, users : 0 .. MaxUsers]] :
                \A i, j \in 1 .. n : i # j => o[i].chain # o[j].chain }
            : n \in 0 .. MaxPeers }

NoRanks == [country |-> 0, category |-> 0, mapCategory |-> 0]

InitRank ==
    /\ chain \in ChainNames
    /\ peers \in PeerObjects
    /\ ranks = NoRanks

IdleRank ==
    /\ chain = <<"e", "t", "h">>
    /\ peers = <<>>
    /\ ranks = NoRanks

\* fetchCountryData: rank of one row of the country table
fetchCountryDataRank ==
    /\ ranks.country = 0
    /\ ranks' = [ranks EXCEPT !.country = RankOf(peers, countryRowChainUsers(peers, chain))]
    /\ UNCHANGED <<chain, peers, nonRankVars>>

\* fetchCategoryData: rank of one category
fetchCategoryDataRank ==
    /\ ranks.category = 0
    /\ ranks' = [ranks EXCEPT !.category = RankOf(peers, categoryRowChainUsers(peers, chain))]
    /\ UNCHANGED <<chain, peers, nonRankVars>>

\* fetchMapCategoryData: categoryRankings[category]
fetchMapCategoryDataRank ==
    /\ ranks.mapCategory = 0
    /\ ranks' = [ranks EXCEPT !.mapCategory = RankOf(peers, mapCategoryChainUsers(peers, chain))]
    /\ UNCHANGED <<chain, peers, nonRankVars>>

NextRank ==
    \/ fetchCountryDataRank
    \/ fetchCategoryDataRank
    \/ fetchMapCategoryDataRank

(***************************************************************************)
(* RangeSlider: initial state and event handlers                           *)
(***************************************************************************)
SliderProps ==
    { p \in [min : {0}, max : {SliderMax}, step : {1, 2}, minGap : 0 .. MaxGap] :
        p.minGap <= p.max - p.min }

InitSlider ==
    /\ props \in SliderProps
    /\ \E dl \in props.min .. props.max, dr \in props.min .. props.max :
          \* defaults on the step grid that respect the gap
          /\ dl + props.minGap <= dr
          /\ snap(dl) = dl /\ snap(dr) = dr
          /\ left = clamp(snap(dl), props.min, props.max)
          /\ right = clamp(snap(dr), props.min, props.max)
    /\ activeThumb = "none"
    /\ listeners = <<>>
    /\ lastEvent = "mount"
    /\ pointerValue = 0

IdleSlider ==
    /\ props = [min |-> 0, max |-> SliderMax, step |-> 1, minGap |-> 1]
    /\ left = 0 /\ right = SliderMax
    /\ activeThumb = "none" /\ listeners = <<>>
    /\ lastEvent = "mount" /\ pointerValue = 0

\* pointer-down on a thumb: startDragging(which), then the event bubbles to
\* the track's onPointerDown, which runs in the same render.  One pointer:
\* it is pressed again only after it was released.
startDragging(which, v) ==
    /\ listeners = <<>>
    /\ LET lr == trackPointerDown(v) IN
          /\ left' = lr[1]
          /\ right' = lr[2]
          /\ listeners' = Append(listeners, CurrentClosure)
    /\ activeThumb' = which
    /\ lastEvent' = "down"
    /\ pointerValue' = v
    /\ UNCHANGED <<props, nonSliderVars>>

\* window "pointermove": every registered handlePointerMove runs, in
\* registration order
PointerMove(v) ==
    /\ LET lr == DispatchPointerMove(listeners, v, <<left, right>>) IN
          /\ left' = lr[1]
          /\ right' = lr[2]
    /\ lastEvent' = "move"
    /\ pointerValue' = v
    /\ UNCHANGED <<props, activeThumb, listeners, nonSliderVars>>

\* (mutation: pointer-up leaves the pointer-move listeners registered)
stopDraggingKeep ==
    /\ listeners # <<>>
    /\ activeThumb' = "none"
    /\ listeners' = listeners
    /\ lastEvent' = "up"
    /\ UNCHANGED <<props, left, right, pointerValue, nonSliderVars>>

\* window "pointerup": every registered stopDragging runs and removes itself
\* and the handlePointerMove it was created with
stopDragging ==
    /\ listeners # <<>>
    /\ activeThumb' = "none"
    /\ listeners' = <<>>
    /\ lastEvent' = "up"
    /\ UNCHANGED <<props, left, right, pointerValue, nonSliderVars>>

onKeyDown(which, key) ==
    /\ IF key = "Other"
       THEN UNCHANGED <<left, right>>
       ELSE LET next == snap(keyNext(which, key))
                l == IF which = "left"
                     THEN clamp(next, props.min, right - props.minGap) ELSE left
                r == IF which = "right"
                     THEN clamp(next, left + props.minGap, props.max) ELSE right
            IN  /\ left' = l
                /\ right' = r
    /\ lastEvent' = "key"
    /\ UNCHANGED <<props, activeThumb, listeners, pointerValue, nonSliderVars>>

\* pointer-down on the track itself (no thumb under the pointer)
TrackClick(v) ==
    /\ LET lr == trackPointerDown(v) IN
          /\ left' = lr[1]
          /\ right' = lr[2]
    /\ lastEvent' = "track"
    /\ pointerValue' = v
    /\ UNCHANGED <<props, activeThumb, listeners, nonSliderVars>>

\* pointer-down of a second pointer (a second finger) on a thumb while the
\* first is still down: startDragging(which) again, then the track's handler.
\* addEventListener ignores a listener that is already registered.
secondPointerDown(which, v) ==
    /\ Len(listeners) = 1
    /\ LET lr == trackPointerDown(v) IN
          /\ left' = lr[1]
          /\ right' = lr[2]
          /\ listeners' = IF listeners[1] = CurrentClosure
                          THEN listeners
                          ELSE Append(listeners, CurrentClosure)
    /\ activeThumb' = which
    /\ lastEvent' = "down"
    /\ pointerValue' = v
    /\ UNCHANGED <<props, nonSliderVars>>

\* dragging alone, with up to two pointers down at once
NextDrag ==
    \/ \E which \in {"left", "right"}, v \in clientXToValue :
          /\ MathAbs(v - (IF which = "left" THEN left ELSE right)) <= ThumbReach
          /\ startDragging(which, v)
    \/ \E which \in {"left", "right"}, v \in clientXToValue :
          /\ MathAbs(v - (IF which = "left" THEN left ELSE right)) <= ThumbReach
          /\ secondPointerDown(which, v)
    \/ \E v \in clientXToValue : PointerMove(v)
    \/ stopDragging

NextSlider ==
    \/ \E which \in {"left", "right"}, v \in clientXToValue :
          /\ MathAbs(v - (IF which = "left" THEN left ELSE right)) <= ThumbReach
          /\ startDragging(which, v)
    \/ \E v \in clientXToValue : PointerMove(v)
    \/ stopDragging
    \/ \E which \in {"left", "right"}, key \in Keys : onKeyDown(which, key)
    \/ \E v \in clientXToValue : TrackClick(v)

(***************************************************************************)
(* Growth effect: prior period, aggregation per category / country,        *)
(* fastest growing selection, baseline comparison                          *)
(***************************************************************************)
MaxDay == 12        \* latest calendar day of a date range (prior-period runs)
MaxRows == 2        \* rows in the table

MS_PER_DAY == 86400000

\* new Date('YYYY-MM-DD').getTime(): a date-only string is UTC midnight.
\* Calendar days are counted from DATE_START, so is the time in ms.
DateGetTime(day) == day * MS_PER_DAY

\* date.toISOString().slice(0, 10): the UTC calendar day of a time in ms
toISODate(ms) == ms \div MS_PER_DAY

\* (mutation: the prior period ends on startDate itself)
priorPeriodOverlapping(s, e) ==
    LET days == (DateGetTime(e) - DateGetTime(s)) \div MS_PER_DAY
        prevEnd == DateGetTime(s)
        prevStart == prevEnd - days * MS_PER_DAY
    IN  [ps |-> toISODate(prevStart), pe |-> toISODate(prevEnd)]

\* days, prevEnd, prevStart, ps, pe of the growth effect.  The two dates are
\* whole UTC days, so the quotient days is exact.
priorPeriod(s, e) ==
    LET days == (DateGetTime(e) - DateGetTime(s)) \div MS_PER_DAY
        prevEnd == DateGetTime(s) - MS_PER_DAY
        prevStart == prevEnd - days * MS_PER_DAY
    IN  [ps |-> toISODate(prevStart), pe |-> toISODate(prevEnd)]

NoPrior == [ps |-> 0, pe |-> -1]

\* a numeric column: <<>> is null, <<n>> the number n
Null == <<>>
Num(n) == <<n>>
OrZero(x) == IF x = Null THEN 0 ELSE x[1]    \* x || 0

Categories == {"defi", "nft"}
Countries == {"US", "CA"}
RequestCounts == {Null, Num(1), Num(2)}

\* the days rows are recorded on in the growth runs: one in the prior
\* period of [GrowthStart, GrowthEnd], one in the period itself
GrowthStart == 2
GrowthEnd == GrowthStart + 1
RowDays == {GrowthStart - 1, GrowthStart}

\* the country column of the table holds a code in either case
RowCountries == Countries \cup {"us"}

\* String.prototype.toLowerCase on the names of Categories and RowCountries
toLowerCaseName(name) ==
    CASE name = "US" -> "us"
      [] name = "CA" -> "ca"
      [] OTHER -> name

FactRows == [date : RowDays, category : Categories, country : RowCountries,
             total_requests : RequestCounts]

Tables == UNION { [1 .. n -> FactRows] : n \in 0 .. MaxRows }

\* supabase ... .gte('date', lo).lte('date', hi)
QueryDates(rows, lo, hi) == SelectSeq(rows, LAMBDA row : row.date >= lo /\ row.date <= hi)

\* a plain object used as a map: its entries in insertion order
ObjKeys(obj) == [i \in 1 .. Len(obj) |-> obj[i].key]

RECURSIVE ObjGet(_, _)
ObjGet(obj, key) ==    \* obj[key] || 0
    IF obj = <<>> THEN 0
    ELSE IF Head(obj).key = key THEN Head(obj).val ELSE ObjGet(Tail(obj), key)

RECURSIVE ObjAdd(_, _, _)
ObjAdd(obj, key, n) ==    \* obj[key] = (obj[key] || 0) + n
    IF obj = <<>> THEN << [key |-> key, val |-> n] >>
    ELSE IF Head(obj).key = key
         THEN << [key |-> key, val |-> Head(obj).val + n] >> \o Tail(obj)
         ELSE << Head(obj) >> \o ObjAdd(Tail(obj), key, n)

RECURSIVE ObjSum(_)
ObjSum(obj) ==    \* Object.values(obj).reduce((sum, val) => sum + val, 0)
    IF obj = <<>> THEN 0 ELSE Head(obj).val + ObjSum(Tail(obj))

\* rows.forEach(row => totals[row.category] = (totals[row.category] || 0)
\*                                             + (row.total_requests || 0))
RECURSIVE CategoryTotals(_, _)
CategoryTotals(rows, acc) ==
    IF rows = <<>> THEN acc
    ELSE CategoryTotals(Tail(rows),
            ObjAdd(acc, Head(rows).category, OrZero(Head(rows).total_requests)))

\* the same by row.country, for rows that have a country
RECURSIVE CountryTotals(_, _)
CountryTotals(rows, acc) ==
    IF rows = <<>> THEN acc
    ELSE CountryTotals(Tail(rows),
            IF Head(rows).country # ""
            THEN ObjAdd(acc, Head(rows).country, OrZero(Head(rows).total_requests))
            ELSE acc)

\* numbers of the growth computation, kept exact as fractions num / den with
\* den > 0; -Infinity is -1 / 0
Rat(n, d) == [num |-> n, den |-> d]
NegInfinity == Rat(-1, 0)
RatGreater(a, b) == a.num * b.den > b.num * a.den
RatEq(a, b) == a.num * b.den = b.num * a.den /\ (a.den = 0) = (b.den = 0)

\* ((currTotal - prevTotal) / prevTotal) * 100
growthRate(currTotal, prevTotal) == Rat((currTotal - prevTotal) * 100, prevTotal)

\* Object.keys(currTotals).forEach(key => ...): one pass of the selection loop;
\* best is [name, growth]
RECURSIVE FastestGrowing(_, _, _, _)
FastestGrowing(keys, currTotals, prevTotals, best) ==
    IF keys = <<>> THEN best
    ELSE LET key == Head(keys)
             currTotal == ObjGet(currTotals, key)
             prevTotal == ObjGet(prevTotals, key)
             next ==
                IF prevTotal > 0
                THEN IF RatGreater(growthRate(currTotal, prevTotal), best.growth)
                     THEN [name |-> key, growth |-> growthRate(currTotal, prevTotal)]
                     ELSE best
                ELSE IF currTotal > 0
                     THEN IF RatGreater(Rat(100, 1), best.growth)
                          THEN [name |-> key, growth |-> Rat(100, 1)]
                          ELSE best
                     ELSE best
         IN  FastestGrowing(Tail(keys), currTotals, prevTotals, next)

\* (mutation: the zero-baseline case reports 0)
percentageChangeNoSentinel(currSum, prevSum) ==
    IF prevSum > 0 THEN Rat((currSum - prevSum) * 100, prevSum) ELSE Rat(0, 1)

\* prevSum > 0 ? ((currSum - prevSum) / prevSum) * 100 : currSum > 0 ? 100 : 0
percentageChange(currSum, prevSum) ==
    IF prevSum > 0 THEN Rat((currSum - prevSum) * 100, prevSum)
    ELSE IF currSum > 0 THEN Rat(100, 1) ELSE Rat(0, 1)

\* (mutation: the cross-filter is ignored, every row is kept)
filterByNone(rows, column, value) == rows

\* value ? rows.filter(row => row[column] === value) : rows
filterBy(rows, column, value) ==
    IF value # "" THEN SelectSeq(rows, LAMBDA row : row[column] = value) ELSE rows

\* (mutation: the baseline sums the country totals, which follow the category
\* filter)
growthResultCountrySums(currData, prevData, byCategory, byCountry) ==
    LET categoryCurrData == filterBy(currData, "country", byCountry)
        categoryPrevData == filterBy(prevData, "country", byCountry)
        currCategoryTotals == CategoryTotals(categoryCurrData, <<>>)
        prevCategoryTotals == CategoryTotals(categoryPrevData, <<>>)
        fastestCat == FastestGrowing(ObjKeys(currCategoryTotals), currCategoryTotals,
                          prevCategoryTotals, [name |-> "", growth |-> NegInfinity])
        countryCurrData == filterBy(currData, "category", byCategory)
        countryPrevData == filterBy(prevData, "category", byCategory)
        currCountryTotals == CountryTotals(countryCurrData, <<>>)
        prevCountryTotals == CountryTotals(countryPrevData, <<>>)
        fastestCtry == FastestGrowing(ObjKeys(currCountryTotals), currCountryTotals,
                          prevCountryTotals, [name |-> "", growth |-> NegInfinity])
        currSum == ObjSum(currCountryTotals)
        prevSum == ObjSum(prevCountryTotals)
    IN  [ computed |-> TRUE,
          fastestGrowingCategory |-> fastestCat.name,
          fastestGrowingPercentage |-> fastestCat.growth,
          fastestGrowingCountry |-> fastestCtry.name,
          fastestGrowingCountryPercentage |-> fastestCtry.growth,
          currSum |-> currSum,
          prevSum |-> prevSum,
          baselineApiCalls |-> prevSum,
          percentChangeCalls |-> percentageChange(currSum, prevSum) ]

\* the body of the growth effect once both queries returned rows
growthResult(currData, prevData, byCategory, byCountry) ==
    LET categoryCurrData == filterBy(currData, "country", byCountry)
        categoryPrevData == filterBy(prevData, "country", byCountry)
        currCategoryTotals == CategoryTotals(categoryCurrData, <<>>)
        prevCategoryTotals == CategoryTotals(categoryPrevData, <<>>)
        fastestCat == FastestGrowing(ObjKeys(currCategoryTotals), currCategoryTotals,
                          prevCategoryTotals, [name |-> "", growth |-> NegInfinity])
        countryCurrData == filterBy(currData, "category", byCategory)
        countryPrevData == filterBy(prevData, "category", byCategory)
        currCountryTotals == CountryTotals(countryCurrData, <<>>)
        prevCountryTotals == CountryTotals(countryPrevData, <<>>)
        fastestCtry == FastestGrowing(ObjKeys(currCountryTotals), currCountryTotals,
                          prevCountryTotals, [name |-> "", growth |-> NegInfinity])
        currSum == ObjSum(currCategoryTotals)
        prevSum == ObjSum(prevCategoryTotals)
    IN  [ computed |-> TRUE,
          fastestGrowingCategory |-> fastestCat.name,
          fastestGrowingPercentage |-> fastestCat.growth,
          fastestGrowingCountry |-> fastestCtry.name,
          fastestGrowingCountryPercentage |-> fastestCtry.growth,
          currSum |-> currSum,
          prevSum |-> prevSum,
          baselineApiCalls |-> prevSum,
          percentChangeCalls |-> percentageChange(currSum, prevSum) ]

\* the useState initial values
InitialGrowth ==
    [ computed |-> FALSE,
      fastestGrowingCategory |-> "", fastestGrowingPercentage |-> Rat(0, 1),
      fastestGrowingCountry |-> "", fastestGrowingCountryPercentage |-> Rat(0, 1),
      currSum |-> 0, prevSum |-> 0,
      baselineApiCalls |-> 0, percentChangeCalls |-> Rat(0, 1) ]

IdleGrowth ==
    /\ startDate = GrowthStart /\ endDate = GrowthEnd
    /\ prior = NoPrior
    /\ table = <<>>
    /\ filteredByCategory = "" /\ filteredByCountry = ""
    /\ growth = InitialGrowth

(***************************************************************************)
(* Dashboard: aggregation by date (fetchData) and by country               *)
(* (fetchMapCountryData)                                                   *)
(***************************************************************************)
getCountryName(isoCode) ==
    CASE isoCode = "840" -> "United States" [] isoCode = "124" -> "Canada"
      [] isoCode = "826" -> "United Kingdom" [] isoCode = "276" -> "Germany"
      [] isoCode = "250" -> "France" [] isoCode = "36" -> "Australia"
      [] isoCode = "392" -> "Japan" [] isoCode = "356" -> "India"
      [] isoCode = "156" -> "China" [] isoCode = "076" -> "Brazil"
      [] isoCode = "US" -> "United States" [] isoCode = "CA" -> "Canada"
      [] isoCode = "GB" -> "United Kingdom" [] isoCode = "DE" -> "Germany"
      [] isoCode = "FR" -> "France" [] isoCode = "AU" -> "Australia"
      [] isoCode = "JP" -> "Japan" [] isoCode = "IN" -> "India"
      [] isoCode = "CN" -> "China" [] isoCode = "BR" -> "Brazil"
      [] isoCode = "ES" -> "Spain" [] isoCode = "NL" -> "Netherlands"
      [] isoCode = "RU" -> "Russia" [] isoCode = "TR" -> "Turkey"
      [] isoCode = "KR" -> "South Korea" [] isoCode = "NG" -> "Nigeria"
      [] isoCode = "ZA" -> "South Africa" [] isoCode = "NZ" -> "New Zealand"
      [] OTHER -> isoCode

getCountryCodeMapping(isoCode) ==
    CASE isoCode = "840" -> "US" [] isoCode = "124" -> "CA"
      [] isoCode = "826" -> "GB" [] isoCode = "276" -> "DE"
      [] isoCode = "250" -> "FR" [] isoCode = "36" -> "AU"
      [] isoCode = "392" -> "JP" [] isoCode = "356" -> "IN"
      [] isoCode = "156" -> "CN" [] isoCode = "076" -> "BR"
      [] OTHER -> isoCode

\* fetchData: aggregatedData[dateKey].x += row.x || 0, creating the bucket of
\* a date when its first row is met
RECURSIVE AddToDateBucket(_, _, _)
AddToDateBucket(buckets, row, fresh) ==
    IF buckets = <<>>
    THEN << [fresh EXCEPT !.api_calls = OrZero(row.total_requests),
                          !.tx_volume_usd = OrZero(row.tx_volume_usd),
                          !.unique_users = OrZero(row.unique_users)] >>
    ELSE IF Head(buckets).date = row.date
         THEN << [Head(buckets) EXCEPT
                    !.api_calls = @ + OrZero(row.total_requests),
                    !.tx_volume_usd = @ + OrZero(row.tx_volume_usd),
                    !.unique_users = @ + OrZero(row.unique_users)] >> \o Tail(buckets)
         ELSE << Head(buckets) >> \o AddToDateBucket(Tail(buckets), row, fresh)

\* (mutation: a row of an existing bucket overwrites the sums)
RECURSIVE AggregateByDateOverwrite(_, _, _, _, _)
AggregateByDateOverwrite(rows, c, selCountry, selCategory, acc) ==
    IF rows = <<>> THEN acc
    ELSE AggregateByDateOverwrite(Tail(rows), c, selCountry, selCategory,
            SelectSeq(acc, LAMBDA b : b.date # Head(rows).date) \o
            << [date |-> Head(rows).date, chain |-> c,
                api_calls |-> OrZero(Head(rows).total_requests),
                tx_volume_usd |-> OrZero(Head(rows).tx_volume_usd),
                unique_users |-> OrZero(Head(rows).unique_users),
                country |-> IF selCountry # "" THEN getCountryName(selCountry) ELSE "Global",
                category |-> IF selCategory # "" THEN selCategory ELSE "All Categories"] >>)

\* fetchData: data.forEach(row => ...) and Object.values(aggregatedData)
RECURSIVE AggregateByDate(_, _, _, _, _)
AggregateByDate(rows, c, selCountry, selCategory, acc) ==
    IF rows = <<>> THEN acc
    ELSE AggregateByDate(Tail(rows), c, selCountry, selCategory,
            AddToDateBucket(acc, Head(rows),
                [date |-> Head(rows).date, chain |-> c,
                 api_calls |-> 0, tx_volume_usd |-> 0, unique_users |-> 0,
                 country |-> IF selCountry # "" THEN getCountryName(selCountry) ELSE "Global",
                 category |-> IF selCategory # "" THEN selCategory ELSE "All Categories"]))

\* fetchMapCountryData: countryTotals[row.country].x += row.x || 0
RECURSIVE AddToCountryBucket(_, _)
AddToCountryBucket(buckets, row) ==
    IF buckets = <<>>
    THEN << [key |-> row.country,
             total_requests |-> OrZero(row.total_requests),
             unique_users |-> OrZero(row.unique_users),
             tx_volume_usd |-> OrZero(row.tx_volume_usd)] >>
    ELSE IF Head(buckets).key = row.country
         THEN << [Head(buckets) EXCEPT
                    !.total_requests = @ + OrZero(row.total_requests),
                    !.unique_users = @ + OrZero(row.unique_users),
                    !.tx_volume_usd = @ + OrZero(row.tx_volume_usd)] >> \o Tail(buckets)
         ELSE << Head(buckets) >> \o AddToCountryBucket(Tail(buckets), row)

RECURSIVE CountryBuckets(_, _)
CountryBuckets(rows, acc) ==
    IF rows = <<>> THEN acc
    ELSE CountryBuckets(Tail(rows), AddToCountryBucket(acc, Head(rows)))

\* the mock data of fetchMapCountryData
mockData ==
    << [key |-> "US", total_requests |-> 12345, unique_users |-> 5000, tx_volume_usd |-> 1000000],
       [key |-> "CA", total_requests |-> 2345, unique_users |-> 1000, tx_volume_usd |-> 200000],
       [key |-> "FR", total_requests |-> 3456, unique_users |-> 1500, tx_volume_usd |-> 300000],
       [key |-> "GB", total_requests |-> 4567, unique_users |-> 2000, tx_volume_usd |-> 400000],
       [key |-> "DE", total_requests |-> 5678, unique_users |-> 2500, tx_volume_usd |-> 500000] >>

\* fetchMapCountryData: if (data && data.length > 0) aggregate, else mock data
countryTotals(rows) == IF Len(rows) > 0 THEN CountryBuckets(rows, <<>>) ELSE mockData

\* Object.values(countryTotals).reduce((sum, val) => sum + (val.total_requests
\* || val), 0): a bucket whose total_requests is 0 adds the object itself,
\* which turns the sum into a string; isNumber records that
RECURSIVE ReduceTotal(_, _)
ReduceTotal(buckets, sum) ==
    IF buckets = <<>> THEN sum
    ELSE ReduceTotal(Tail(buckets),
            IF Head(buckets).total_requests # 0 /\ sum.isNumber
            THEN [value |-> sum.value + Head(buckets).total_requests, isNumber |-> TRUE]
            ELSE [value |-> sum.value, isNumber |-> FALSE])

Number(n) == [value |-> n, isNumber |-> TRUE]

AggRows == [date : {0, 1}, country : Countries, total_requests : RequestCounts,
            unique_users : {Null, Num(1)}, tx_volume_usd : {Null, Num(1)}]

(***************************************************************************)
(* Slider value <-> calendar date                                          *)
(* Calendar days are counted from the epoch's calendar day (V2Page:        *)
(* 2020-01-01, Dashboard: 2025-06-01), times in ms from that day's UTC     *)
(* midnight.                                                               *)
(***************************************************************************)
MS_PER_HOUR == 3600000

\* local UTC offsets of real time zones, in hours (UTC-12 .. UTC+14)
TzOffsets == { h * MS_PER_HOUR : h \in {-12, -5, 0, 1, 9, 12, 14} }

\* V2Page: new Date(2020, 0, 1).getTime(): local midnight of the epoch day
fixedStartDate == 0 - tz

\* V2Page.handleSliderChange: new Date(fixedStartDate.getTime() + left * 24 * 60
\* * 60 * 1000).toISOString().split('T')[0]
handleSliderChange(value) == toISODate(fixedStartDate + value * 24 * 60 * 60 * 1000)

\* V2Page.startDays: Math.round((new Date(startDate).getTime()
\*                               - fixedStartDate.getTime()) / (1000 * 60 * 60 * 24))
startDays(date) == MathRoundDiv(DateGetTime(date) - fixedStartDate, 1000 * 60 * 60 * 24)

\* Dashboard: DATE_START = new Date('2025-06-01'), UTC midnight of the epoch day
DATE_START == DateGetTime(0)

\* Dashboard slider-to-date effect: formatDate(new Date(DATE_START.getTime()
\*                                                      + value * MS_PER_DAY))
sliderToDate(value) == toISODate(DATE_START + value * MS_PER_DAY)

(***************************************************************************)
(* V2Page: today, the quick ranges and the views of the selected country   *)
(* The calendar is scaled down so that times in ms stay small: today is    *)
(* TodayDay days after the epoch day, a month has MonthLength days and the *)
(* current year began YearStartDay days after the epoch day.               *)
(***************************************************************************)
TodayDay == 10      \* today's local calendar day, counted from the epoch day
MonthLength == 8    \* days from a day of last month to the same day of this one
YearStartDay == 3   \* January 1 of today's year, counted from the epoch day

\* the local hour of the day at which the page is open
HoursOfDay == {0, 9, 23}

\* the values new Date() can have: a time of day of today's local date
Todays == { fixedStartDate + TodayDay * MS_PER_DAY + h * MS_PER_HOUR : h \in HoursOfDay }

\* V2Page.totalDays: Math.round((today.getTime() - fixedStartDate.getTime())
\*                               / (1000 * 60 * 60 * 24))
totalDays == MathRoundDiv(today - fixedStartDate, 1000 * 60 * 60 * 24)

QuickRanges == {"Past Week", "Past Month", "YTD", "All Time"}

\* the Date a quick-range button starts its range at: weekAgo, monthAgo, ytd,
\* fixedStartDate
quickRangeStart(button) ==
    CASE button = "Past Week"  -> today - 7 * MS_PER_DAY
      [] button = "Past Month" -> today - MonthLength * MS_PER_DAY
      [] button = "YTD"        -> fixedStartDate + YearStartDay * MS_PER_DAY
      [] OTHER                 -> fixedStartDate

\* the two views handleCountryClick fills
CountryViews == {"countryCategoryData", "countryDappData"}

IdlePage ==
    /\ today = 0
    /\ startDateV2 = 0 /\ endDateV2 = 0
    /\ rendered = FALSE /\ notified = <<>>
    /\ quickRange = <<>>
    /\ selectedCountryV2 = ""
    /\ countryCategoryData = <<>> /\ countryDappData = <<>>
    /\ requests = {} /\ clicks = 0
    /\ served = [view \in CountryViews |-> <<>>]

(***************************************************************************)
(* Dashboard: date range, selections, cross-filter and the fetch effects   *)
(***************************************************************************)
DateEndDay == 2     \* DATE_END as a day after DATE_START ('2025-07-31', day 60,
                    \* in the source)
MaxFetches == 3     \* runs of fetchData and of fetchMapCountryData in a behaviour
MaxGrowthRuns == 4  \* runs of the growth effect in a behaviour

DATE_END == DateGetTime(DateEndDay)
NUM_DAYS == MathRoundDiv(DATE_END - DATE_START, MS_PER_DAY)

Effects == {"fetchData", "fetchMapCountryData", "growth"}

\* the error of a query's answer: "" for null, or error.message
QueryErrors == {"", "timeout", "denied"}

\* the useState initial values of the views the fetch effects fill
InitialViews ==
    /\ rawData = Null
    /\ mapCountryData = <<>>
    /\ totalApiRequests = Number(0)
    /\ loading = FALSE /\ fetchError = ""
    /\ mapLoading = FALSE /\ mapError = ""

InitialFetches ==
    /\ startSliderValue = 0 /\ sliderValue = NUM_DAYS
    /\ mounted = FALSE
    /\ rangeInput = [thumb |-> "", value |-> 0]
    /\ inflight = {}
    /\ issued = [e \in Effects |-> 0]
    /\ failure = [e \in Effects |-> ""]
    /\ writer = [e \in Effects |-> 0]

IdleDash ==
    /\ data = <<>>
    /\ selectedCountry = "" /\ selectedCategory = ""
    /\ InitialViews
    /\ InitialFetches
    /\ observed = {}

IdleDate ==
    /\ tz = 0 /\ sliderIn = 0 /\ dateIn = 0
    /\ v2d = <<>> /\ d2v = <<>> /\ dash = <<>>

InitDateSpec ==
    /\ tz \in TzOffsets
    /\ sliderIn \in 0 .. MaxDay
    /\ dateIn \in 0 .. MaxDay
    /\ v2d = <<>> /\ d2v = <<>> /\ dash = <<>>
    /\ IdleSlider /\ IdleRank /\ IdleGrowth /\ IdleDash /\ IdlePage

\* V2Page: the slider reports sliderIn; handleSliderChange sets startDate and
\* the next render derives startDays from it
SliderChange ==
    /\ v2d = <<>>
    /\ v2d' = << handleSliderChange(sliderIn), startDays(handleSliderChange(sliderIn)) >>
    /\ UNCHANGED <<tz, sliderIn, dateIn, d2v, dash, nonDateVars>>

\* V2Page: the date input sets startDate to dateIn; the render derives
\* startDays, which handleSliderChange turns into a date again
DateInputChange ==
    /\ d2v = <<>>
    /\ d2v' = << startDays(dateIn), handleSliderChange(startDays(dateIn)) >>
    /\ UNCHANGED <<tz, sliderIn, dateIn, v2d, dash, nonDateVars>>

\* Dashboard: "whenever either thumb moves, recalc both dates"
DashboardSliderEffect ==
    /\ dash = <<>>
    /\ dash' = << sliderToDate(sliderIn) >>
    /\ UNCHANGED <<tz, sliderIn, dateIn, v2d, d2v, nonDateVars>>

NextDate == SliderChange \/ DateInputChange \/ DashboardSliderEffect

SpecDate == InitDateSpec /\ [][NextDate]_vars

\* ---- the prior period for every date range ----
InitPriorSpec ==
    /\ startDate \in 0 .. MaxDay /\ endDate \in 0 .. MaxDay
    /\ startDate <= endDate
    /\ prior = NoPrior
    /\ table = <<>>
    /\ filteredByCategory = "" /\ filteredByCountry = ""
    /\ growth = InitialGrowth
    /\ IdleSlider /\ IdleRank /\ IdleDate /\ IdleDash /\ IdlePage

\* the first lines of the growth effect: ps and pe
ComputePriorPeriod ==
    /\ prior = NoPrior
    /\ prior' = priorPeriod(startDate, endDate)
    /\ UNCHANGED <<startDate, endDate, table, filteredByCategory, filteredByCountry,
                   growth, nonGrowthVars>>

NextPrior == ComputePriorPeriod

SpecPrior == InitPriorSpec /\ [][NextPrior]_vars

\* ---- one run of the growth effect over every small table ----
InitGrowthSpec ==
    /\ startDate = GrowthStart /\ endDate = GrowthEnd
    /\ prior = NoPrior
    /\ table \in Tables
    /\ filteredByCategory \in {""} \cup Categories
    /\ filteredByCountry \in {""} \cup Countries
    /\ filteredByCategory = "" \/ filteredByCountry = ""
    /\ growth = InitialGrowth
    /\ IdleSlider /\ IdleRank /\ IdleDate /\ IdleDash /\ IdlePage

\* the growth effect with both queries answered without error
GrowthEffect ==
    /\ ~growth.computed
    /\ LET p == priorPeriod(startDate, endDate)
           currData == QueryDates(table, startDate, endDate)
           prevData == QueryDates(table, p.ps, p.pe)
       IN  /\ prior' = p
           /\ growth' = growthResult(currData, prevData, filteredByCategory, filteredByCountry)
    /\ UNCHANGED <<startDate, endDate, table, filteredByCategory, filteredByCountry,
                   nonGrowthVars>>

NextGrowth == GrowthEffect

SpecGrowth == InitGrowthSpec /\ [][NextGrowth]_vars

\* ---- one successful run of each aggregation over every small row set ----
InitAggSpec ==
    /\ data \in UNION { [1 .. n -> AggRows] : n \in 0 .. MaxRows }
    /\ chain \in { <<"e", "t", "h">> }
    /\ peers = <<>> /\ ranks = NoRanks
    /\ selectedCountry = "" /\ selectedCategory = ""
    /\ InitialViews /\ InitialFetches /\ observed = {}
    /\ IdleSlider /\ IdleGrowth /\ IdleDate /\ IdlePage

\* fetchData after its query returned data without error
fetchDataAggregate ==
    /\ rawData = Null
    /\ rawData' = << AggregateByDate(data, chain, selectedCountry, selectedCategory, <<>>) >>
    /\ UNCHANGED <<data, selectedCountry, selectedCategory, mapCountryData,
                   totalApiRequests, loading, fetchError, mapLoading, mapError,
                   fetchVars, sliderVars, rankVars, growthVars, dateVars, pageVars>>

\* fetchMapCountryData after its query returned data without error
fetchMapCountryAggregate ==
    /\ mapCountryData = <<>>
    /\ mapCountryData' = countryTotals(data)
    /\ totalApiRequests' = ReduceTotal(countryTotals(data), Number(0))
    /\ UNCHANGED <<data, selectedCountry, selectedCategory, rawData,
                   loading, fetchError, mapLoading, mapError,
                   fetchVars, sliderVars, rankVars, growthVars, dateVars, pageVars>>

NextAgg == fetchDataAggregate \/ fetchMapCountryAggregate

SpecAgg == InitAggSpec /\ [][NextAgg]_vars

(***************************************************************************)
(* Dashboard: handlers, the effects they trigger and the responses         *)
(***************************************************************************)
\* supabase .ilike(column, value) with a value free of wildcards
ilike(a, b) == toLowerCase(a) = toLowerCase(b)

\* the rows of aggregated_country_chain_category; their category and country
\* values are in one case, so .ilike on these two columns is equality
DashTable ==
    << [date |-> 0 - 1, chain |-> <<"e", "t", "h">>, category |-> "defi", country |-> "US",
        total_requests |-> Num(1), unique_users |-> Num(1), tx_volume_usd |-> Null],
       [date |-> 0, chain |-> <<"E", "t", "h">>, category |-> "defi", country |-> "US",
        total_requests |-> Num(2), unique_users |-> Null, tx_volume_usd |-> Num(1)],
       [date |-> 1, chain |-> <<"e", "t", "h">>, category |-> "nft", country |-> "CA",
        total_requests |-> Null, unique_users |-> Num(1), tx_volume_usd |-> Null],
       [date |-> 2, chain |-> <<"e", "t", "h">>, category |-> "nft", country |-> "US",
        total_requests |-> Num(2), unique_users |-> Num(1), tx_volume_usd |-> Null],
       [date |-> 2, chain |-> <<"p", "o", "l">>, category |-> "defi", country |-> "CA",
        total_requests |-> Num(1), unique_users |-> Num(1), tx_volume_usd |-> Num(1)] >>

\* the values an effect closes over when it runs
Closure ==
    [ chain |-> chain, startDate |-> startDate, endDate |-> endDate,
      selectedCountry |-> selectedCountry, selectedCategory |-> selectedCategory,
      filteredByCategory |-> filteredByCategory, filteredByCountry |-> filteredByCountry ]

\* the query of fetchData
fetchDataQuery(c) ==
    SelectSeq(table, LAMBDA row :
        /\ ilike(row.chain, c.chain)
        /\ row.date >= c.startDate /\ row.date <= c.endDate
        /\ c.selectedCountry # "" => row.country = getCountryCodeMapping(c.selectedCountry)
        /\ c.selectedCategory # "" => row.category = c.selectedCategory)

\* the query of fetchMapCountryData
fetchMapCountryDataQuery(c) ==
    SelectSeq(table, LAMBDA row :
        /\ ilike(row.chain, c.chain)
        /\ row.date >= c.startDate /\ row.date <= c.endDate
        /\ c.selectedCategory # "" => row.category = c.selectedCategory)

\* the two queries of the growth effect
growthQuery(c, lo, hi) ==
    QueryDates(SelectSeq(table, LAMBDA row : ilike(row.chain, c.chain)), lo, hi)

\* Object.values(mockData).reduce((sum, val) => sum + val.total_requests, 0)
RECURSIVE SumTotalRequests(_)
SumTotalRequests(buckets) ==
    IF buckets = <<>> THEN 0
    ELSE Head(buckets).total_requests + SumTotalRequests(Tail(buckets))

\* the dependency arrays of the three effects
depsFetchData == <<chain, startDate, endDate, selectedCountry, selectedCategory>>
depsFetchMapCountryData == <<chain, startDate, endDate, selectedCategory>>
depsGrowth == <<chain, startDate, endDate, filteredByCategory, filteredByCountry>>

MaxRuns(e) == IF e = "growth" THEN MaxGrowthRuns ELSE MaxFetches

\* effect e runs after the render and gets past `if (!chain) return`
Fires(e) ==
    /\ e \in observed
    /\ chain' # <<>>
    /\ CASE e = "fetchData" -> depsFetchData' # depsFetchData
         [] e = "fetchMapCountryData" -> depsFetchMapCountryData' # depsFetchMapCountryData
         [] e = "growth" -> depsGrowth' # depsGrowth

\* the effects after a render: each one that fires sets its loading flag,
\* clears its error and sends its query; nothing cancels the earlier ones
RunEffects ==
    /\ \A e \in Effects : Fires(e) => issued[e] < MaxRuns(e)
    /\ issued' = [e \in Effects |-> IF Fires(e) THEN issued[e] + 1 ELSE issued[e]]
    /\ failure' = [e \in Effects |-> IF Fires(e) THEN "" ELSE failure[e]]
    /\ inflight' = inflight \cup
          { [effect |-> e, id |-> issued[e] + 1, closure |-> Closure'] :
               e \in { x \in Effects : Fires(x) } }
    /\ loading' = IF Fires("fetchData") THEN TRUE ELSE loading
    /\ fetchError' = IF Fires("fetchData") THEN "" ELSE fetchError
    /\ mapLoading' = IF Fires("fetchMapCountryData") THEN TRUE ELSE mapLoading
    /\ mapError' = IF Fires("fetchMapCountryData") THEN "" ELSE mapError
    /\ UNCHANGED <<rawData, mapCountryData, totalApiRequests, growth, prior, writer>>

\* the setters of one handler, the render that follows, the slider-to-date
\* effect and the fetch effects of the render after it
Render(c, start, end, selCountry, selCategory, byCategory, byCountry) ==
    /\ chain' = c
    /\ startSliderValue' = start /\ sliderValue' = end
    /\ IF ~mounted \/ <<start, end>> # <<startSliderValue, sliderValue>>
       THEN startDate' = sliderToDate(start) /\ endDate' = sliderToDate(end)
       ELSE UNCHANGED <<startDate, endDate>>
    /\ selectedCountry' = selCountry /\ selectedCategory' = selCategory
    /\ filteredByCategory' = byCategory /\ filteredByCountry' = byCountry
    /\ mounted' = TRUE
    /\ RunEffects
    /\ UNCHANGED <<data, table, peers, ranks, observed, sliderVars, dateVars, pageVars>>

\* (mutation: the click sets the category filter and keeps the country filter)
categoryCardClickKeep(fastest, byCategory, byCountry) ==
    IF fastest # ""
    THEN [filteredByCategory |-> fastest, filteredByCountry |-> byCountry]
    ELSE [filteredByCategory |-> byCategory, filteredByCountry |-> byCountry]

\* onClick of the Fastest Growing Category card
categoryCardClick(fastest, byCategory, byCountry) ==
    IF fastest # ""
    THEN [filteredByCategory |-> fastest, filteredByCountry |-> ""]
    ELSE [filteredByCategory |-> byCategory, filteredByCountry |-> byCountry]

\* onClick of the Fastest Growing Country card
countryCardClick(fastest, byCategory, byCountry) ==
    IF fastest # ""
    THEN [filteredByCategory |-> "", filteredByCountry |-> fastest]
    ELSE [filteredByCategory |-> byCategory, filteredByCountry |-> byCountry]

InitDash ==
    /\ chain = <<>> /\ peers = <<>> /\ ranks = NoRanks
    /\ startDate = toISODate(DATE_START) /\ endDate = toISODate(DATE_END)
    /\ prior = NoPrior
    /\ table = DashTable
    /\ filteredByCategory = "" /\ filteredByCountry = ""
    /\ growth = InitialGrowth
    /\ data = <<>>
    /\ selectedCountry = "" /\ selectedCategory = ""
    /\ InitialViews /\ InitialFetches
    /\ IdleSlider /\ IdleDate /\ IdlePage

InitFetchSpec == InitDash /\ observed = {"fetchData"}

InitMapSpec == InitDash /\ observed = {"fetchMapCountryData"}

InitFilterSpec == InitDash /\ observed = {"growth"}

\* the mount effect reads the chain from sessionStorage
Mount ==
    /\ UNCHANGED rangeInput
    /\ ~mounted
    /\ \E selected \in { <<>>, <<"e", "t", "h">> } :
         Render(selected, startSliderValue, sliderValue, selectedCountry,
                selectedCategory, filteredByCategory, filteredByCountry)

\* onChange of the Start range input
StartSliderInput ==
    /\ mounted
    /\ \E newStart \in 0 .. NUM_DAYS :
         /\ rangeInput' = [thumb |-> "start", value |-> newStart]
         /\ Render(chain, IF newStart < sliderValue THEN newStart ELSE startSliderValue,
                sliderValue, selectedCountry, selectedCategory,
                filteredByCategory, filteredByCountry)

\* onChange of the End range input
EndSliderInput ==
    /\ mounted
    /\ \E newEnd \in 0 .. NUM_DAYS :
         /\ rangeInput' = [thumb |-> "end", value |-> newEnd]
         /\ Render(chain, startSliderValue,
                IF newEnd > startSliderValue THEN newEnd ELSE sliderValue,
                selectedCountry, selectedCategory, filteredByCategory, filteredByCountry)

\* handleCountryClick on a country of the map
CountryClick ==
    /\ UNCHANGED rangeInput
    /\ mounted
    /\ \E countryCode \in Countries :
         Render(chain, startSliderValue, sliderValue, countryCode, selectedCategory,
                filteredByCategory, filteredByCountry)

\* the Clear Selection button of the map
ClearSelection ==
    /\ UNCHANGED rangeInput
    /\ mounted /\ selectedCountry # ""
    /\ Render(chain, startSliderValue, sliderValue, "", selectedCategory,
              filteredByCategory, filteredByCountry)

\* onClick of a row of the category list
CategoryToggle ==
    /\ UNCHANGED rangeInput
    /\ mounted
    /\ \E category \in Categories :
         Render(chain, startSliderValue, sliderValue, selectedCountry,
                IF selectedCategory = category THEN "" ELSE category,
                filteredByCategory, filteredByCountry)

CategoryCardClick ==
    /\ UNCHANGED rangeInput
    /\ mounted
    /\ LET f == categoryCardClick(growth.fastestGrowingCategory,
                                  filteredByCategory, filteredByCountry)
       IN  Render(chain, startSliderValue, sliderValue, selectedCountry,
                  selectedCategory, f.filteredByCategory, f.filteredByCountry)

CountryCardClick ==
    /\ UNCHANGED rangeInput
    /\ mounted
    /\ LET f == countryCardClick(growth.fastestGrowingCountry,
                                 filteredByCategory, filteredByCountry)
       IN  Render(chain, startSliderValue, sliderValue, selectedCountry,
                  selectedCategory, f.filteredByCategory, f.filteredByCountry)

\* the Clear Filter button inside the category card
ClearCountryFilter ==
    /\ UNCHANGED rangeInput
    /\ mounted /\ filteredByCountry # ""
    /\ Render(chain, startSliderValue, sliderValue, selectedCountry,
              selectedCategory, filteredByCategory, "")

\* the Clear Filter button inside the country card
ClearCategoryFilter ==
    /\ UNCHANGED rangeInput
    /\ mounted /\ filteredByCategory # ""
    /\ Render(chain, startSliderValue, sliderValue, selectedCountry,
              selectedCategory, "", filteredByCountry)

\* the query of one fetchData call returns: whatever was issued since, its
\* continuation sets the view
fetchDataResponse ==
    \E r \in inflight, error \in QueryErrors :
      /\ r.effect = "fetchData"
      /\ inflight' = inflight \ {r}
      /\ writer' = [writer EXCEPT !["fetchData"] = r.id]
      /\ failure' = [failure EXCEPT !["fetchData"] = error]
      /\ IF error = ""
         THEN /\ rawData' = << AggregateByDate(fetchDataQuery(r.closure), r.closure.chain,
                                  r.closure.selectedCountry, r.closure.selectedCategory, <<>>) >>
              /\ UNCHANGED fetchError
         ELSE /\ fetchError' = error
              /\ UNCHANGED rawData
      /\ loading' = FALSE
      /\ UNCHANGED <<data, selectedCountry, selectedCategory, mapCountryData,
                     totalApiRequests, mapLoading, mapError, startSliderValue,
                     sliderValue, mounted, rangeInput, observed, issued, sliderVars, rankVars,
                     growthVars, dateVars, pageVars>>

\* the query of one fetchMapCountryData call returns
fetchMapCountryDataResponse ==
    \E r \in inflight, error \in QueryErrors :
      /\ r.effect = "fetchMapCountryData"
      /\ inflight' = inflight \ {r}
      /\ writer' = [writer EXCEPT !["fetchMapCountryData"] = r.id]
      /\ failure' = [failure EXCEPT !["fetchMapCountryData"] = error]
      /\ IF error = ""
         THEN /\ mapCountryData' = countryTotals(fetchMapCountryDataQuery(r.closure))
              /\ totalApiRequests' =
                    ReduceTotal(countryTotals(fetchMapCountryDataQuery(r.closure)), Number(0))
              /\ UNCHANGED mapError
         ELSE /\ \E instanceofError \in BOOLEAN :
                   mapError' = IF instanceofError THEN error ELSE "Unknown error"
              /\ mapCountryData' = mockData
              /\ totalApiRequests' = Number(SumTotalRequests(mockData))
      /\ mapLoading' = FALSE
      /\ UNCHANGED <<data, selectedCountry, selectedCategory, rawData, loading,
                     fetchError, startSliderValue, sliderValue, mounted, rangeInput, observed,
                     issued,
                     sliderVars, rankVars, growthVars, dateVars, pageVars>>

\* (mutation: a failed run puts the growth figures back to their initial values)
growthResponseReset ==
    \E r \in inflight, error \in QueryErrors :
      /\ r.effect = "growth"
      /\ inflight' = inflight \ {r}
      /\ failure' = [failure EXCEPT !["growth"] = error]
      /\ IF error = ""
         THEN LET p == priorPeriod(r.closure.startDate, r.closure.endDate)
                  currData == growthQuery(r.closure, r.closure.startDate, r.closure.endDate)
                  prevData == growthQuery(r.closure, p.ps, p.pe)
              IN  /\ prior' = p
                  /\ growth' = growthResult(currData, prevData,
                                  r.closure.filteredByCategory, r.closure.filteredByCountry)
                  /\ writer' = [writer EXCEPT !["growth"] = r.id]
         ELSE /\ growth' = InitialGrowth
              /\ UNCHANGED <<prior, writer>>
      /\ UNCHANGED <<startDate, endDate, table, filteredByCategory, filteredByCountry,
                     data, selectedCountry, selectedCategory, viewVars,
                     startSliderValue, sliderValue, mounted, rangeInput, observed, issued,
                     sliderVars, rankVars, dateVars, pageVars>>

\* the two queries of one run of the growth effect have returned; with an
\* error in either the run sets nothing
growthResponse ==
    \E r \in inflight, error \in QueryErrors :
      /\ r.effect = "growth"
      /\ inflight' = inflight \ {r}
      /\ failure' = [failure EXCEPT !["growth"] = error]
      /\ IF error = ""
         THEN LET p == priorPeriod(r.closure.startDate, r.closure.endDate)
                  currData == growthQuery(r.closure, r.closure.startDate, r.closure.endDate)
                  prevData == growthQuery(r.closure, p.ps, p.pe)
              IN  /\ prior' = p
                  /\ growth' = growthResult(currData, prevData,
                                  r.closure.filteredByCategory, r.closure.filteredByCountry)
                  /\ writer' = [writer EXCEPT !["growth"] = r.id]
         ELSE UNCHANGED <<prior, growth, writer>>
      /\ UNCHANGED <<startDate, endDate, table, filteredByCategory, filteredByCountry,
                     data, selectedCountry, selectedCategory, viewVars,
                     startSliderValue, sliderValue, mounted, rangeInput, observed, issued,
                     sliderVars, rankVars, dateVars, pageVars>>

NextFetch ==
    \/ Mount
    \/ StartSliderInput
    \/ EndSliderInput
    \/ CountryClick
    \/ ClearSelection
    \/ CategoryToggle
    \/ fetchDataResponse

SpecFetch == InitFetchSpec /\ [][NextFetch]_vars

NextMap ==
    \/ Mount
    \/ StartSliderInput
    \/ EndSliderInput
    \/ CategoryToggle
    \/ fetchMapCountryDataResponse

SpecMap == InitMapSpec /\ [][NextMap]_vars

NextFilter ==
    \/ Mount
    \/ StartSliderInput
    \/ EndSliderInput
    \/ CategoryCardClick
    \/ CountryCardClick
    \/ ClearCountryFilter
    \/ ClearCategoryFilter
    \/ growthResponse

SpecFilter == InitFilterSpec /\ [][NextFilter]_vars

(***************************************************************************)
(* Dashboard: the totals cards ("rank within all chains")                  *)
(***************************************************************************)
\* rawData.filter(row => row.date >= startDate && row.date <= endDate)
cardFiltered ==
    IF rawData # Null /\ Len(rawData[1]) > 0
    THEN SelectSeq(rawData[1], LAMBDA row : row.date >= startDate /\ row.date <= endDate)
    ELSE <<>>

\* (mutation: the totals are keyed by the date of the bucket)
RECURSIVE chainTotalsPerDate(_, _, _)
chainTotalsPerDate(rows, field, acc) ==
    IF rows = <<>> THEN acc
    ELSE chainTotalsPerDate(Tail(rows), field,
            IF Head(rows).chain # <<>>
            THEN ObjAdd(acc, Head(rows).date, Head(rows)[field])
            ELSE acc)

\* filtered.forEach(row => { if (row.chain) chainTotals[row.chain] =
\*     (chainTotals[row.chain] || 0) + (row[field] || 0) })
RECURSIVE chainTotals(_, _, _)
chainTotals(rows, field, acc) ==
    IF rows = <<>> THEN acc
    ELSE chainTotals(Tail(rows), field,
            IF Head(rows).chain # <<>>
            THEN ObjAdd(acc, Head(rows).chain, Head(rows)[field])
            ELSE acc)

\* Object.keys(chainTotals).find(k => k.toLowerCase() === chain.toLowerCase())
\* || chain, and '' without a chain
currentChainKey(totals) ==
    IF chain = <<>> THEN <<>>
    ELSE LET found == { i \in 1 .. Len(totals) : toLowerCase(totals[i].key) = toLowerCase(chain) }
         IN  IF found # {}
             THEN totals[CHOOSE i \in found : \A j \in found : i <= j].key
             ELSE chain

\* (mutation: a chain without requests gets the placeholder)
totalsCardRankPlaceholder(totals) ==
    LET currentTotal == ObjGet(totals, currentChainKey(totals))
    IN  IF currentTotal # 0
        THEN Num(1 + Cardinality({ i \in 1 .. Len(totals) : totals[i].val > currentTotal }))
        ELSE Null

\* the rank of a totals card: Null for the placeholder '-'
totalsCardRank(totals) ==
    LET currentTotal == ObjGet(totals, currentChainKey(totals))
    IN  IF \E i \in 1 .. Len(totals) : totals[i].key = currentChainKey(totals)
        THEN IF currentTotal = 0
             THEN Num(Len(totals))
             ELSE Num(1 + Cardinality({ i \in 1 .. Len(totals) : totals[i].val > currentTotal }))
        ELSE Null

\* the Total API Requests card shows the chain rank unless a country is selected
apiCardShowsRank == selectedCountry = ""
apiCardTotals == chainTotals(cardFiltered, "api_calls", <<>>)
apiCardRank == totalsCardRank(apiCardTotals)

\* the Total Transaction Volume card shows it once rawData has rows
txCardShowsRank == rawData # Null /\ Len(rawData[1]) > 0
txCardTotals == chainTotals(cardFiltered, "tx_volume_usd", <<>>)
txCardRank == totalsCardRank(txCardTotals)

\* the Total Unique Users card shows it once rawData has rows
usersCardShowsRank == rawData # Null /\ Len(rawData[1]) > 0
usersCardTotals == chainTotals(cardFiltered, "unique_users", <<>>)
usersCardRank == totalsCardRank(usersCardTotals)

(***************************************************************************)
(* MapView: users per country (fetchCountryData)                           *)
(***************************************************************************)
\* countryTotals[row.country] += row.users || 0, creating the entry of a
\* country with 0 when its first row is met
RECURSIVE AddToCountryUsers(_, _)
AddToCountryUsers(totals, row) ==
    IF totals = <<>>
    THEN << [key |-> row.country, users |-> OrZero(row.users)] >>
    ELSE IF Head(totals).key = row.country
         THEN << [Head(totals) EXCEPT !.users = @ + OrZero(row.users)] >> \o Tail(totals)
         ELSE << Head(totals) >> \o AddToCountryUsers(Tail(totals), row)

RECURSIVE CountryUsers(_, _)
CountryUsers(rows, acc) ==
    IF rows = <<>> THEN acc
    ELSE CountryUsers(Tail(rows), AddToCountryUsers(acc, Head(rows)))

\* the mock data of MapView.fetchCountryData
mockUsers ==
    << [key |-> "US", users |-> 12345], [key |-> "CA", users |-> 2345],
       [key |-> "FR", users |-> 3456], [key |-> "GB", users |-> 4567],
       [key |-> "DE", users |-> 5678] >>

\* MapView.fetchCountryData: if (data && data.length > 0) aggregate, else
\* mock data
countryUserTotals(rows) ==
    IF Len(rows) > 0 THEN CountryUsers(rows, <<>>) ELSE mockUsers

\* Object.values(countryTotals).reduce((sum, val) => sum + val, 0)
RECURSIVE SumUsers(_)
SumUsers(totals) ==
    IF totals = <<>> THEN 0 ELSE Head(totals).users + SumUsers(Tail(totals))

\* the rows of aggregated_country_chain for the rows of data: country, users,
\* date
userRows == [i \in DOMAIN data |->
               [country |-> data[i].country, users |-> data[i].unique_users,
                date |-> data[i].date]]

(***************************************************************************)
(* Dashboard: the total of the selected country                            *)
(***************************************************************************)
\* mapCountryData[key]: the bucket of a key, Null when the object has none
RECURSIVE bucketOf(_, _)
bucketOf(object, key) ==
    IF object = <<>> THEN Null
    ELSE IF Head(object).key = key THEN Num(Head(object))
         ELSE bucketOf(Tail(object), key)

\* Total API Requests card: const possibleKeys = [selectedCountry,
\* getCountryCodeMapping(selectedCountry), countryName]
possibleKeys ==
    << selectedCountry, getCountryCodeMapping(selectedCountry),
       getCountryName(selectedCountry) >>

\* for (const key of possibleKeys) if (mapCountryData[key]) { ...; break }
RECURSIVE firstBucket(_, _)
firstBucket(object, keys) ==
    IF keys = <<>> THEN Null
    ELSE IF bucketOf(object, Head(keys)) # Null
         THEN bucketOf(object, Head(keys))
         ELSE firstBucket(object, Tail(keys))

\* countryData ? countryData.total_requests : 0 (the buckets are objects)
totalOf(countryData) ==
    IF countryData # Null THEN countryData[1].total_requests ELSE 0

\* the countryTotal the Total API Requests card shows for a selected country
countryTotal == totalOf(firstBucket(mapCountryData, possibleKeys))

\* getSelectedCountryApiRequests: mapCountryData[selectedCountry] ||
\* mapCountryData[mappedCode] || null
getSelectedCountryApiRequests ==
    IF selectedCountry = "" THEN 0
    ELSE totalOf(firstBucket(mapCountryData,
                    << selectedCountry, getCountryCodeMapping(selectedCountry) >>))

\* the rows the map query can return: a country is recorded under its
\* 2-letter code or under its name
CardRows == [date : {0}, country : {"US", "CA", "United States"},
             total_requests : {Num(1), Num(2)},
             unique_users : {Null}, tx_volume_usd : {Null}]

\* the Dashboard after its mount, the map query about to answer with data
InitCardSpec ==
    /\ data \in UNION { [1 .. n -> CardRows] : n \in 1 .. MaxRows }
    /\ chain = <<"e", "t", "h">>
    /\ peers = <<>> /\ ranks = NoRanks
    /\ startDate = toISODate(DATE_START) /\ endDate = toISODate(DATE_END)
    /\ prior = NoPrior
    /\ table = <<>>
    /\ filteredByCategory = "" /\ filteredByCountry = ""
    /\ growth = InitialGrowth
    /\ selectedCountry = "" /\ selectedCategory = ""
    /\ InitialViews
    /\ startSliderValue = 0 /\ sliderValue = NUM_DAYS
    /\ mounted = TRUE
    /\ rangeInput = [thumb |-> "", value |-> 0]
    /\ inflight = {}
    /\ issued = [e \in Effects |-> 0]
    /\ failure = [e \in Effects |-> ""]
    /\ writer = [e \in Effects |-> 0]
    /\ observed = {}
    /\ IdleSlider /\ IdleDate /\ IdlePage

NextCard == fetchMapCountryAggregate \/ CountryClick

SpecCard == InitCardSpec /\ [][NextCard]_vars

(***************************************************************************)
(* V2Page: the date range card and the RangeSlider it mounts               *)
(***************************************************************************)
\* the mount render of V2Page and of its RangeSlider, effects not yet run
InitPage ==
    /\ tz \in TzOffsets
    /\ today \in Todays
    /\ startDateV2 = toISODate(fixedStartDate)
    /\ endDateV2 = toISODate(today)
    /\ props = [min |-> 0, max |-> totalDays, step |-> 1, minGap |-> 1]
    /\ left = clamp(snap(startDays(startDateV2)), props.min, props.max)
    /\ right = clamp(snap(startDays(endDateV2)), props.min, props.max)
    /\ activeThumb = "none" /\ listeners = <<>>
    /\ lastEvent = "mount" /\ pointerValue = 0
    /\ rendered = TRUE /\ notified = <<>>
    /\ quickRange = <<>>
    /\ selectedCountryV2 = ""
    /\ countryCategoryData = <<>> /\ countryDappData = <<>>
    /\ requests = {} /\ clicks = 0
    /\ served = [view \in CountryViews |-> <<>>]
    /\ sliderIn = 0 /\ dateIn = 0
    /\ v2d = <<>> /\ d2v = <<>> /\ dash = <<>>
    /\ IdleRank /\ IdleGrowth /\ IdleDash

\* the RangeSlider onChange effect has nothing to run for: its deps
\* [left, right, onChange] are those of its last run
Settled == ~rendered /\ notified = <<left, right>>

\* what the date handlers of V2Page leave alone
pageDateFrame == <<tz, today, props, left, right, notified, selectedCountryV2,
                   countryCategoryData, countryDappData, requests, clicks, served,
                   nonPageVars>>

\* (mutation: every run of the effect makes V2Page render again)
onChangeEffectAlways ==
    /\ ~Settled
    /\ notified' = <<left, right>>
    /\ startDateV2' = handleSliderChange(left)
    /\ endDateV2' = handleSliderChange(right)
    /\ rendered' = TRUE
    /\ UNCHANGED <<tz, today, props, left, right, lastEvent, quickRange,
                   selectedCountryV2, countryCategoryData, countryDappData,
                   requests, clicks, served, nonPageVars>>

\* RangeSlider: useEffect(() => { onChange?.(left, right); }, [left, right,
\* onChange]) with onChange = handleSliderChange of the last V2Page render;
\* V2Page renders again when a date it set differs from the one it had
onChangeEffect ==
    /\ ~Settled
    /\ notified' = <<left, right>>
    /\ startDateV2' = handleSliderChange(left)
    /\ endDateV2' = handleSliderChange(right)
    /\ rendered' = (<<startDateV2', endDateV2'>> # <<startDateV2, endDateV2>>)
    /\ UNCHANGED <<tz, today, props, left, right, lastEvent, quickRange,
                   selectedCountryV2, countryCategoryData, countryDappData,
                   requests, clicks, served, nonPageVars>>

\* onClick of a quick-range button: setStartDate(newStartDate),
\* setEndDate(newEndDate), then handleSliderChange(startDays, endDays), whose
\* setStartDate / setEndDate are the last of the batch
quickRangeClick(button) ==
    /\ Settled
    /\ LET start == quickRangeStart(button)
           newStartDate == toISODate(start)
           newEndDate == toISODate(today)
           startDaysOf == IF button = "All Time" THEN 0
                          ELSE MathRoundDiv(start - fixedStartDate, 1000 * 60 * 60 * 24)
           endDaysOf == MathRoundDiv(today - fixedStartDate, 1000 * 60 * 60 * 24)
       IN  /\ quickRange' = <<newStartDate, newEndDate>>
           /\ startDateV2' = handleSliderChange(startDaysOf)
           /\ endDateV2' = handleSliderChange(endDaysOf)
    /\ rendered' = (<<startDateV2', endDateV2'>> # <<startDateV2, endDateV2>>)
    /\ lastEvent' = "quickRange"
    /\ UNCHANGED pageDateFrame

\* onChange of the start date input: setStartDate(e.target.value), a date
\* between the input's min and max
startDateInput(value) ==
    /\ Settled
    /\ value \in toISODate(fixedStartDate) .. endDateV2
    /\ startDateV2' = value
    /\ rendered' = (value # startDateV2)
    /\ lastEvent' = "dateInput"
    /\ UNCHANGED <<endDateV2, quickRange, pageDateFrame>>

\* onChange of the end date input: setEndDate(e.target.value)
endDateInput(value) ==
    /\ Settled
    /\ value \in startDateV2 .. toISODate(today)
    /\ endDateV2' = value
    /\ rendered' = (value # endDateV2)
    /\ lastEvent' = "dateInput"
    /\ UNCHANGED <<startDateV2, quickRange, pageDateFrame>>

\* the dates an input can be set to
PageDates == (0 - 1) .. (TodayDay + 1)

NextRange ==
    \/ onChangeEffect
    \/ \E button \in QuickRanges : quickRangeClick(button)
    \/ \E value \in PageDates : startDateInput(value)
    \/ \E value \in PageDates : endDateInput(value)
    \/ \E which \in {"left", "right"}, key \in Keys : Settled /\ onKeyDown(which, key)

InitRangeSpec == InitPage

SpecRange == InitRangeSpec /\ [][NextRange]_vars

\* effects are run once the render that scheduled them is committed
SpecRangeLive == InitRangeSpec /\ [][NextRange]_vars /\ WF_vars(onChangeEffect)

(***************************************************************************)
(* V2Page: the selected country's categories and dapps                     *)
(***************************************************************************)
MaxClicks == 2      \* country clicks in a behaviour

\* the rows of aggregated_country_chain_category_dapps
DappTable ==
    << [date |-> 0, country |-> "US", chain |-> <<"e", "t", "h">>, category |-> "defi",
        dapp_id |-> 1, dapp_name |-> "swap", total_requests |-> Num(1), unique_users |-> Num(1)],
       [date |-> 2, country |-> "US", chain |-> <<"p", "o", "l">>, category |-> "defi",
        dapp_id |-> 1, dapp_name |-> "swap", total_requests |-> Num(2), unique_users |-> Null],
       [date |-> 2, country |-> "US", chain |-> <<"e", "t", "h">>, category |-> "nft",
        dapp_id |-> 2, dapp_name |-> "mint", total_requests |-> Num(4), unique_users |-> Num(1)],
       [date |-> 1, country |-> "CA", chain |-> <<"e", "t", "h">>, category |-> "nft",
        dapp_id |-> 2, dapp_name |-> "mint", total_requests |-> Null, unique_users |-> Num(1)] >>

\* .ilike('country', countryCode).gte('date', startDate).lte('date', endDate)
countryQuery(rows, countryCode, start, end) ==
    SelectSeq(rows, LAMBDA row :
        /\ toLowerCaseName(row.country) = toLowerCaseName(countryCode)
        /\ row.date >= start
        /\ row.date <= end)

\* fetchCountryCategoryData: categoryTotals[row.category].x += row.x || 0
RECURSIVE AddToCategoryTotals(_, _)
AddToCategoryTotals(totals, row) ==
    IF totals = <<>>
    THEN << [key |-> row.category,
             requests |-> OrZero(row.total_requests),
             volume |-> OrZero(row.tx_volume_usd),
             users |-> OrZero(row.unique_users)] >>
    ELSE IF Head(totals).key = row.category
         THEN << [Head(totals) EXCEPT
                    !.requests = @ + OrZero(row.total_requests),
                    !.volume = @ + OrZero(row.tx_volume_usd),
                    !.users = @ + OrZero(row.unique_users)] >> \o Tail(totals)
         ELSE << Head(totals) >> \o AddToCategoryTotals(Tail(totals), row)

RECURSIVE categoryTotals(_, _)
categoryTotals(rows, acc) ==
    IF rows = <<>> THEN acc
    ELSE categoryTotals(Tail(rows), AddToCategoryTotals(acc, Head(rows)))

\* chains.includes(row.chain)
RECURSIVE includes(_, _)
includes(list, x) ==
    IF list = <<>> THEN FALSE
    ELSE Head(list) = x \/ includes(Tail(list), x)

\* fetchCountryDappData: dappAggregated[`${row.dapp_name}-${row.category}`]
RECURSIVE AddToDappAggregated(_, _)
AddToDappAggregated(dapps, row) ==
    IF dapps = <<>>
    THEN << [key |-> <<row.dapp_name, row.category>>,
             dapp_id |-> row.dapp_id,
             dapp_name |-> row.dapp_name,
             category |-> row.category,
             chains |-> << row.chain >>,
             total_requests |-> OrZero(row.total_requests),
             unique_users |-> OrZero(row.unique_users)] >>
    ELSE IF Head(dapps).key = <<row.dapp_name, row.category>>
         THEN << [Head(dapps) EXCEPT
                    !.total_requests = @ + OrZero(row.total_requests),
                    !.unique_users = @ + OrZero(row.unique_users),
                    !.chains = IF includes(@, row.chain) THEN @
                               ELSE Append(@, row.chain)] >> \o Tail(dapps)
         ELSE << Head(dapps) >> \o AddToDappAggregated(Tail(dapps), row)

RECURSIVE dappAggregated(_, _)
dappAggregated(rows, acc) ==
    IF rows = <<>> THEN acc
    ELSE dappAggregated(Tail(rows), AddToDappAggregated(acc, Head(rows)))

\* .sort((a, b) => b.total_requests - a.total_requests): stable, descending
RECURSIVE InsertByRequests(_, _)
InsertByRequests(sorted, dapp) ==
    IF sorted = <<>> THEN << dapp >>
    ELSE IF Head(sorted).total_requests >= dapp.total_requests
         THEN << Head(sorted) >> \o InsertByRequests(Tail(sorted), dapp)
         ELSE << dapp >> \o sorted

RECURSIVE sortByRequests(_, _)
sortByRequests(dapps, sorted) ==
    IF dapps = <<>> THEN sorted
    ELSE sortByRequests(Tail(dapps), InsertByRequests(sorted, Head(dapps)))

\* Object.values(dappAggregated).sort(...).slice(0, 30)
aggregatedArray(rows) ==
    LET sorted == sortByRequests(dappAggregated(rows, <<>>), <<>>)
    IN  SubSeq(sorted, 1, MathMin(30, Len(sorted)))

\* the startDate and endDate of the mount render: the globe's click listener
\* is registered by an effect with no deps and keeps the handleCountryClick,
\* fetchCountryCategoryData and fetchCountryDappData of that render
mountStartDate == toISODate(fixedStartDate)
mountEndDate == toISODate(today)

\* what the country handlers of V2Page leave alone
pageCountryFrame == <<tz, today, props, left, right, startDateV2, endDateV2,
                      notified, quickRange, nonPageVars>>

\* onGlobeClick -> handleCountryClick(countryCode): setSelectedCountry, then
\* both fetches start
handleCountryClick(countryCode) ==
    /\ Settled
    /\ clicks < MaxClicks
    /\ clicks' = clicks + 1
    /\ selectedCountryV2' = countryCode
    /\ requests' = requests \cup
          { [view |-> view, id |-> clicks', countryCode |-> countryCode,
             start |-> mountStartDate, end |-> mountEndDate] : view \in CountryViews }
    /\ rendered' = (countryCode # selectedCountryV2)
    /\ lastEvent' = "countryClick"
    /\ UNCHANGED <<countryCategoryData, countryDappData, served, pageCountryFrame>>

\* fetchCountryCategoryData after its await: the totals, or {} in the catch
fetchCountryCategoryDataResponse(req, error) ==
    /\ Settled
    /\ req \in requests /\ req.view = "countryCategoryData"
    /\ requests' = requests \ {req}
    /\ IF error # ""
       THEN /\ countryCategoryData' = <<>>
            /\ served' = [served EXCEPT !["countryCategoryData"] = <<>>]
       ELSE /\ countryCategoryData' =
                  categoryTotals(countryQuery(DashTable, req.countryCode, req.start, req.end), <<>>)
            /\ served' = [served EXCEPT !["countryCategoryData"] = <<req.start, req.end>>]
    /\ rendered' = TRUE
    /\ UNCHANGED <<selectedCountryV2, countryDappData, clicks, lastEvent,
                   pageCountryFrame>>

\* fetchCountryDappData after its await: the sorted dapps, or [] in the catch
fetchCountryDappDataResponse(req, error) ==
    /\ Settled
    /\ req \in requests /\ req.view = "countryDappData"
    /\ requests' = requests \ {req}
    /\ IF error # ""
       THEN /\ countryDappData' = <<>>
            /\ served' = [served EXCEPT !["countryDappData"] = <<>>]
       ELSE /\ countryDappData' =
                  aggregatedArray(countryQuery(DappTable, req.countryCode, req.start, req.end))
            /\ served' = [served EXCEPT !["countryDappData"] = <<req.start, req.end>>]
    /\ rendered' = TRUE
    /\ UNCHANGED <<selectedCountryV2, countryCategoryData, clicks, lastEvent,
                   pageCountryFrame>>

NextCountry ==
    \/ onChangeEffect
    \/ \E which \in {"left", "right"}, key \in Keys : Settled /\ onKeyDown(which, key)
    \/ \E countryCode \in Countries : handleCountryClick(countryCode)
    \/ \E req \in requests, error \in QueryErrors :
          fetchCountryCategoryDataResponse(req, error)
    \/ \E req \in requests, error \in QueryErrors :
          fetchCountryDappDataResponse(req, error)

\* a browser in UTC
InitCountrySpec == InitPage /\ tz = 0

SpecCountry == InitCountrySpec /\ [][NextCountry]_vars

InitSliderSpec == InitSlider /\ IdleRank /\ IdleGrowth /\ IdleDate /\ IdleDash /\ IdlePage

SpecSlider == InitSliderSpec /\ [][NextSlider]_vars

InitDragSpec == InitSlider /\ IdleRank /\ IdleGrowth /\ IdleDate /\ IdleDash /\ IdlePage

SpecDrag == InitDragSpec /\ [][NextDrag]_vars

InitRankSpec == InitRank /\ IdleSlider /\ IdleGrowth /\ IdleDate /\ IdleDash /\ IdlePage

SpecRank == InitRankSpec /\ [][NextRank]_vars

(***************************************************************************)
(* Claims about RangeSlider                                                *)
(***************************************************************************)

\* C1: in every reachable state of the slider, whatever the interleaving of
\* thumb drags, key presses and track clicks, left + minGap <= right.
C1_GapInvariant == left + props.minGap <= right

\* C10: after a pointer move to value v during a drag, the active thumb sits
\* at v clamped against the current position of the other thumb:
\* left = clamp(v, min, right - minGap), or right = clamp(v, left + minGap, max).
C10_DragClamp ==
    (lastEvent = "move" /\ activeThumb # "none") =>
        IF activeThumb = "left"
        THEN left = clamp(pointerValue, props.min, right - props.minGap)
        ELSE right = clamp(pointerValue, left + props.minGap, props.max)

(***************************************************************************)
(* Claims about ranking                                                    *)
(***************************************************************************)
StrictlyGreater(obj, x) == Cardinality({ i \in 1 .. Len(obj) : obj[i].users > x })

MatchingKeys(obj, c) == { i \in 1 .. Len(obj) : toLowerCase(obj[i].chain) = toLowerCase(c) }

\* C4: at every ranking site the rank found by sorting the peer values in
\* descending order and counting up to the first value that is not greater
\* equals 1 + the number of peer values strictly greater than the subject's
\* value; the empty peer object gives rank 1.
C4_RankFormula ==
    /\ ranks.country # 0 =>
          ranks.country = 1 + StrictlyGreater(peers, countryRowChainUsers(peers, chain))
    /\ ranks.category # 0 =>
          ranks.category = 1 + StrictlyGreater(peers, categoryRowChainUsers(peers, chain))
    /\ ranks.mapCategory # 0 =>
          ranks.mapCategory = 1 + StrictlyGreater(peers, mapCategoryChainUsers(peers, chain))
    /\ (peers = <<>>) => (ranks.country \in {0, 1} /\ ranks.category \in {0, 1}
                            /\ ranks.mapCategory \in {0, 1})

\* a rank was computed over three peers, two of them tied above the subject
C4_Witness ==
    /\ Len(peers) = 3
    /\ ranks.country = 3 /\ ranks.category = 3 /\ ranks.mapCategory = 3
    /\ \E i, j \in 1 .. 3 : i # j /\ peers[i].users = peers[j].users

\* C8: the rank reported for the selected chain is the same for every case
\* variant of its name; with exactly one key equal to it ignoring case the
\* subject's value is that key's value; with no such key it is 0.
C8_RankCaseInsensitive ==
    /\ ranks.country # 0 =>
          /\ \A c2 \in ChainNames : toLowerCase(c2) = toLowerCase(chain) =>
                 RankOf(peers, countryRowChainUsers(peers, c2)) = ranks.country
          /\ \A i \in 1 .. Len(peers) : MatchingKeys(peers, chain) = {i} =>
                 ranks.country = 1 + StrictlyGreater(peers, peers[i].users)
          /\ MatchingKeys(peers, chain) = {} => ranks.country = 1 + StrictlyGreater(peers, 0)
    /\ ranks.mapCategory # 0 =>
          /\ \A c2 \in ChainNames : toLowerCase(c2) = toLowerCase(chain) =>
                 RankOf(peers, mapCategoryChainUsers(peers, c2)) = ranks.mapCategory
          /\ \A i \in 1 .. Len(peers) : MatchingKeys(peers, chain) = {i} =>
                 ranks.mapCategory = 1 + StrictlyGreater(peers, peers[i].users)
          /\ MatchingKeys(peers, chain) = {} => ranks.mapCategory = 1 + StrictlyGreater(peers, 0)

\* peers {eth: 1, pol: 2} and the selected chain spelt "Eth": rank 2
C8_Witness ==
    /\ chain = <<"E", "t", "h">>
    /\ peers = << [chain |-> <<"e", "t", "h">>, users |-> 1],
                  [chain |-> <<"p", "o", "l">>, users |-> 2] >>
    /\ ranks.country = 2 /\ ranks.mapCategory = 2

(***************************************************************************)
(* Claims about the growth effect                                          *)
(***************************************************************************)

\* C5: percentChange = (current - prior) / prior * 100 when prior > 0, 100
\* when prior = 0 and current > 0, 0 when both are 0; it is always a finite
\* number; (0,0) -> 0, (120,0) -> 100, (150,100) -> 50, (50,100) -> -50.
C5_GrowthComparison ==
    /\ growth.computed =>
          LET c == growth.currSum
              p == growth.prevSum
              pc == growth.percentChangeCalls
          IN  /\ pc.den > 0
              /\ p > 0 => pc.num * p = (c - p) * 100 * pc.den
              /\ (p = 0 /\ c > 0) => pc.num = 100 * pc.den
              /\ (p = 0 /\ c = 0) => pc.num = 0
    /\ RatEq(percentageChange(0, 0), Rat(0, 1))
    /\ RatEq(percentageChange(120, 0), Rat(100, 1))
    /\ RatEq(percentageChange(150, 100), Rat(50, 1))
    /\ RatEq(percentageChange(50, 100), Rat(-50, 1))

\* the effect ran on rows of the current period only: the 100 sentinel
C5_Witness ==
    /\ growth.computed
    /\ growth.prevSum = 0 /\ growth.currSum > 0
    /\ growth.percentChangeCalls = Rat(100, 1)

\* C9: priorEnd = startDate - 1 day and priorStart = priorEnd - (endDate -
\* startDate) days: the prior window has as many days as the current one,
\* shares no day with it and leaves no day between them.
C9_PriorPeriod ==
    prior # NoPrior =>
        /\ prior.pe = startDate - 1
        /\ prior.ps = prior.pe - (endDate - startDate)
        /\ Cardinality(prior.ps .. prior.pe) = Cardinality(startDate .. endDate)
        /\ (prior.ps .. prior.pe) \cap (startDate .. endDate) = {}
        /\ prior.pe + 1 = startDate

\* the prior period of a three-day range
C9_Witness ==
    /\ startDate = 3 /\ endDate = 5
    /\ prior = [ps |-> 0, pe |-> 2]

(***************************************************************************)
(* Claims about the slider value <-> date conversion                       *)
(***************************************************************************)

\* C6: for every local UTC offset, a slider value converted to a date and
\* back is the same value, and a date converted to a slider value and back
\* is the same date.
C6_RoundTrip ==
    /\ v2d # <<>> => v2d[2] = sliderIn
    /\ d2v # <<>> => d2v[2] = dateIn

RECURSIVE SumField(_, _, _)
SumField(rows, idx, f) ==
    IF idx = {} THEN 0
    ELSE LET i == CHOOSE j \in idx : TRUE
         IN OrZero(rows[i][f]) + SumField(rows, idx \ {i}, f)

RowsOfDate(d) == { i \in 1 .. Len(data) : data[i].date = d }
RowsOfCountry(c) == { i \in 1 .. Len(data) : data[i].country = c }

\* C7: for a non-empty set of fetched rows, every bucket of the per-date
\* aggregation of fetchData and of the per-country aggregation of
\* fetchMapCountryData holds, for total_requests, unique_users and
\* tx_volume_usd, the sum over the rows with the bucket's key (null counted as
\* 0), and every row's key has exactly one bucket, every bucket at least one row
C7_AggregationSum ==
    Len(data) > 0 =>
      /\ rawData # Null =>
           LET buckets == rawData[1] IN
           /\ \A i \in 1 .. Len(data) :
                Cardinality({ j \in 1 .. Len(buckets) : buckets[j].date = data[i].date }) = 1
           /\ \A j \in 1 .. Len(buckets) :
                /\ RowsOfDate(buckets[j].date) # {}
                /\ buckets[j].api_calls =
                     SumField(data, RowsOfDate(buckets[j].date), "total_requests")
                /\ buckets[j].unique_users =
                     SumField(data, RowsOfDate(buckets[j].date), "unique_users")
                /\ buckets[j].tx_volume_usd =
                     SumField(data, RowsOfDate(buckets[j].date), "tx_volume_usd")
      /\ mapCountryData # <<>> =>
           /\ \A i \in 1 .. Len(data) :
                Cardinality({ j \in 1 .. Len(mapCountryData) :
                                mapCountryData[j].key = data[i].country }) = 1
           /\ \A j \in 1 .. Len(mapCountryData) :
                /\ RowsOfCountry(mapCountryData[j].key) # {}
                /\ mapCountryData[j].total_requests =
                     SumField(data, RowsOfCountry(mapCountryData[j].key), "total_requests")
                /\ mapCountryData[j].unique_users =
                     SumField(data, RowsOfCountry(mapCountryData[j].key), "unique_users")
                /\ mapCountryData[j].tx_volume_usd =
                     SumField(data, RowsOfCountry(mapCountryData[j].key), "tx_volume_usd")

\* both aggregations have run over two rows of one date and one country, one of
\* them with a null total_requests, and the bucket holds the sum of the two
C7_Witness ==
    /\ Len(data) = 2
    /\ data[1].date = data[2].date /\ data[1].country = data[2].country
    /\ data[1].total_requests = Null /\ data[2].total_requests = Num(2)
    /\ data[1].unique_users = Num(1) /\ data[2].unique_users = Num(1)
    /\ rawData # Null /\ Len(rawData[1]) = 1
    /\ rawData[1][1].api_calls = 2 /\ rawData[1][1].unique_users = 2
    /\ Len(mapCountryData) = 1 /\ mapCountryData[1].total_requests = 2


\* the view state one effect sets
View(e) ==
    CASE e = "fetchData" -> <<rawData, fetchError>>
      [] e = "fetchMapCountryData" -> <<mapCountryData, totalApiRequests, mapError>>
      [] e = "growth" -> <<growth>>

\* C2: latest-wins: the response of a request issued before the request whose
\* response last set an effect's view is discarded, it leaves that view as the
\* newer request produced it, under every ordering of the responses
C2_LatestWins ==
    [][\A e \in Effects : writer'[e] < writer[e] => View(e)' = View(e)]_vars

\* C3: at most one of filteredByCategory and filteredByCountry is non-empty in
\* every state reached by card clicks and Clear Filter clicks interleaved with
\* runs of the growth effect, and a click that sets one leaves the other empty
C3_CrossFilterExclusion ==
    /\ [](filteredByCategory = "" \/ filteredByCountry = "")
    /\ [][/\ (filteredByCategory' # "" /\ filteredByCategory' # filteredByCategory)
               => filteredByCountry' = ""
          /\ (filteredByCountry' # "" /\ filteredByCountry' # filteredByCountry)
               => filteredByCategory' = ""]_vars

\* a click on the country card has replaced a category filter set by an
\* earlier click on the category card: the growth runs of both are in flight
C3_Witness ==
    /\ filteredByCountry # "" /\ filteredByCategory = ""
    /\ \E a, b \in inflight :
         /\ a.effect = "growth" /\ b.effect = "growth" /\ a.id < b.id
         /\ a.closure.filteredByCategory # "" /\ a.closure.filteredByCountry = ""
         /\ b.closure.filteredByCountry = filteredByCountry
         /\ b.closure.filteredByCategory = ""

\* the error state the view keeps for one effect; the growth effect has none
ErrorState(e) ==
    CASE e = "fetchData" -> fetchError
      [] e = "fetchMapCountryData" -> mapError
      [] e = "growth" -> ""

\* C11: whenever the query of the last ended run of a fetch failed, the view
\* state holds an error that is exactly the message the data source returned
C11_ErrorPropagation ==
    \A e \in Effects : failure[e] # "" => ErrorState(e) = failure[e]

\* the view-model of one effect is what aggregating no rows gives
EmptyView(e) ==
    CASE e = "fetchData" -> rawData = Null \/ rawData = << <<>> >>
      [] e = "fetchMapCountryData" ->
            mapCountryData = <<>> /\ totalApiRequests = Number(0)
      [] e = "growth" ->
            /\ growth.fastestGrowingCategory = "" /\ growth.fastestGrowingCountry = ""
            /\ growth.baselineApiCalls = 0 /\ growth.percentChangeCalls = Rat(0, 1)

\* C12: after the query of the last ended run of a fetch failed, the view-model
\* of that fetch is zero-valued or empty: it holds no fabricated totals and no
\* totals kept from an earlier request
C12_FailureOutcome ==
    \A e \in Effects : failure[e] # "" => EmptyView(e)

\* the rows of the table dated lo .. hi, of one value of a column when a
\* value is given
SelectedRows(lo, hi, column, value) ==
    { i \in 1 .. Len(table) : /\ table[i].date >= lo /\ table[i].date <= hi
                              /\ value # "" => table[i][column] = value }

\* total_requests of the rows in idx grouped under one key
KeyTotal(idx, column, key) ==
    SumField(table, { i \in idx : table[i][column] = key }, "total_requests")

\* the growth comparator on two totals
ComparatorRate(c, p) ==
    IF p > 0 THEN Rat((c - p) * 100, p) ELSE IF c > 0 THEN Rat(100, 1) ELSE Rat(0, 1)

\* the figure selected for one dimension is the growth of key over the rows
\* idxCurr and idxPrev, and nothing is selected only when no key has requests
SelectedOver(name, figure, column, idxCurr, idxPrev) ==
    /\ name # "" =>
         /\ \E i \in idxCurr : table[i][column] = name
         /\ RatEq(figure, ComparatorRate(KeyTotal(idxCurr, column, name),
                                         KeyTotal(idxPrev, column, name)))
    /\ name = "" =>
         \A i \in idxCurr : /\ KeyTotal(idxCurr, column, table[i][column]) = 0
                            /\ KeyTotal(idxPrev, column, table[i][column]) = 0

\* C13: the fastest-growing-category computation uses, in the current and in
\* the prior period, only the rows of filteredByCountry when it is set and all
\* rows otherwise; the fastest-growing-country computation uses only the rows
\* of filteredByCategory when it is set and all rows otherwise
C13_CrossFilterRows ==
    growth.computed =>
      LET catCurr == SelectedRows(startDate, endDate, "country", filteredByCountry)
          catPrev == SelectedRows(prior.ps, prior.pe, "country", filteredByCountry)
          ctryCurr == SelectedRows(startDate, endDate, "category", filteredByCategory)
          ctryPrev == SelectedRows(prior.ps, prior.pe, "category", filteredByCategory)
      IN  /\ growth.currSum = SumField(table, catCurr, "total_requests")
          /\ growth.prevSum = SumField(table, catPrev, "total_requests")
          /\ SelectedOver(growth.fastestGrowingCategory, growth.fastestGrowingPercentage,
                          "category", catCurr, catPrev)
          /\ SelectedOver(growth.fastestGrowingCountry,
                          growth.fastestGrowingCountryPercentage,
                          "country", ctryCurr, ctryPrev)

\* the effect ran under a country filter over a table that also has requests
\* of another country: they are left out of the sums and of the selection
C13_Witness ==
    /\ growth.computed /\ filteredByCountry # ""
    /\ growth.fastestGrowingCategory # ""
    /\ \E i \in 1 .. Len(table) : /\ table[i].country # filteredByCountry
                                  /\ table[i].total_requests # Null
    /\ growth.currSum + growth.prevSum
          < SumField(table, 1 .. Len(table), "total_requests")

\* the first row of idx grouped under key: the place of the key in the
\* iteration order of Object.keys
FirstRow(idx, column, key) ==
    CHOOSE i \in idx : /\ table[i][column] = key
                       /\ \A j \in idx : table[j][column] = key => i <= j

\* name is the candidate of maximum growth among the keys with rows in
\* idxCurr, the first of them in iteration order, and figure is its growth
MaximumOver(name, figure, column, idxCurr, idxPrev) ==
    LET rate(k) == ComparatorRate(KeyTotal(idxCurr, column, k), KeyTotal(idxPrev, column, k))
    IN  idxCurr # {} =>
          /\ \E i \in idxCurr : table[i][column] = name
          /\ RatEq(figure, rate(name))
          /\ \A i \in idxCurr :
                LET k == table[i][column]
                IN  /\ ~RatGreater(rate(k), rate(name))
                    /\ RatEq(rate(k), rate(name)) =>
                          FirstRow(idxCurr, column, name) <= FirstRow(idxCurr, column, k)

\* C14: among all candidates (every category, resp. country, with rows in the
\* current period) the selected one has the maximum percentChange of the
\* growth comparator (100 when prior = 0 and current > 0, 0 when both are 0),
\* and of several candidates sharing the maximum the first encountered
C14_FastestSelection ==
    growth.computed =>
      /\ MaximumOver(growth.fastestGrowingCategory, growth.fastestGrowingPercentage,
            "category",
            SelectedRows(startDate, endDate, "country", filteredByCountry),
            SelectedRows(prior.ps, prior.pe, "country", filteredByCountry))
      /\ MaximumOver(growth.fastestGrowingCountry, growth.fastestGrowingCountryPercentage,
            "country",
            SelectedRows(startDate, endDate, "category", filteredByCategory),
            SelectedRows(prior.ps, prior.pe, "category", filteredByCategory))

SelectedIgnoringCase(lo, hi, column, value) ==
    { i \in 1 .. Len(table) :
         /\ table[i].date >= lo /\ table[i].date <= hi
         /\ value # "" => toLowerCaseName(table[i][column]) = toLowerCaseName(value) }

\* C16: the filteredByCountry and filteredByCategory restrictions of the growth
\* computation keep every row whose value equals the filter ignoring case,
\* while the candidates stay grouped under the rows' original casing
C16_CaseInsensitiveFilters ==
    growth.computed =>
      LET catCurr == SelectedIgnoringCase(startDate, endDate, "country", filteredByCountry)
          catPrev == SelectedIgnoringCase(prior.ps, prior.pe, "country", filteredByCountry)
          ctryCurr == SelectedIgnoringCase(startDate, endDate, "category", filteredByCategory)
          ctryPrev == SelectedIgnoringCase(prior.ps, prior.pe, "category", filteredByCategory)
      IN  /\ growth.currSum = SumField(table, catCurr, "total_requests")
          /\ growth.prevSum = SumField(table, catPrev, "total_requests")
          /\ SelectedOver(growth.fastestGrowingCategory, growth.fastestGrowingPercentage,
                          "category", catCurr, catPrev)
          /\ SelectedOver(growth.fastestGrowingCountry,
                          growth.fastestGrowingCountryPercentage,
                          "country", ctryCurr, ctryPrev)

\* C17: a start value requested at or beyond the end value moves the start
\* thumb to end - 1, an end value requested at or below the start value moves
\* the end thumb to start + 1: the range inputs clamp, they never reject
C17_NeverRejects ==
    /\ (rangeInput.thumb = "start" /\ rangeInput.value >= sliderValue)
          => startSliderValue = sliderValue - 1
    /\ (rangeInput.thumb = "end" /\ rangeInput.value <= startSliderValue)
          => sliderValue = startSliderValue + 1

(***************************************************************************)
(* Claims about the RangeSlider keyboard, track and drag handling          *)
(***************************************************************************)
\* the value a key asks for on the focused thumb
KeyTarget(which, key) ==
    LET cur == IF which = "left" THEN left ELSE right IN
    CASE key = "ArrowLeft"  -> cur - props.step
      [] key = "ArrowRight" -> cur + props.step
      [] key = "PageDown"   -> cur - 10 * props.step
      [] key = "PageUp"     -> cur + 10 * props.step
      [] key = "Home"       -> IF which = "left" THEN props.min ELSE left + props.minGap
      [] key = "End"        -> IF which = "right" THEN props.max ELSE right - props.minGap

\* a key press on thumb which leaves the thumb at target clamped by the gap
\* invariant and the other thumb where it was; another key changes nothing
KeyMovesTo(which, key, target) ==
    IF key = "Other"
    THEN left' = left /\ right' = right
    ELSE IF which = "left"
         THEN left' = clamp(target, props.min, right - props.minGap) /\ right' = right
         ELSE right' = clamp(target, left + props.minGap, props.max) /\ left' = left

\* C18 as stated: ArrowLeft/ArrowRight change the focused thumb by -step/+step,
\* PageDown/PageUp by -10*step/+10*step, Home and End move it to its boundary,
\* the result is clamped to [min, right - minGap] (left) or [left + minGap,
\* max] (right), any other key changes nothing, the other thumb never changes
C18_KeyboardAsStated ==
    [][\A which \in {"left", "right"}, key \in Keys :
          onKeyDown(which, key) => KeyMovesTo(which, key, KeyTarget(which, key))]_vars

\* C18: the same, with the value the key asks for rounded to the nearest
\* multiple of step (halves upwards) before it is clamped
C18_Keyboard ==
    [][\A which \in {"left", "right"}, key \in Keys :
          onKeyDown(which, key) =>
             KeyMovesTo(which, key,
                MathRoundDiv(KeyTarget(which, key), props.step) * props.step)]_vars

\* a key press has taken the left thumb up to the right thumb's gap, off the
\* step grid
C18_Witness ==
    /\ lastEvent = "key"
    /\ props.step = 2 /\ props.minGap = 1
    /\ left > props.min /\ left + props.minGap = right

\* the thumb a click at v is nearer to, the left one on a tie
NearerThumb(v) ==
    IF MathAbs(v - left) <= MathAbs(v - right) THEN "left" ELSE "right"

\* C19: a click on the track at value v sets the nearer thumb (the left one
\* when both are equally near) to v clamped to [min, right - minGap] (left) or
\* [left + minGap, max] (right), and leaves the other thumb where it was
C19_TrackClick ==
    [][\A v \in clientXToValue :
          TrackClick(v) =>
             IF NearerThumb(v) = "left"
             THEN /\ left' = clamp(v, props.min, right - props.minGap)
                  /\ right' = right
             ELSE /\ right' = clamp(v, left + props.minGap, props.max)
                  /\ left' = left]_vars

\* after a click on the track the left thumb stands on the clicked value, as
\* near to the right thumb as the gap allows
C19_Witness ==
    /\ lastEvent = "track"
    /\ pointerValue = left
    /\ props.minGap = 1
    /\ left > props.min
    /\ left + props.minGap = right

\* C20: the active thumb is none, left or right (so never two at once); a
\* pointer-down on a thumb makes that thumb the active one; pointer-up makes
\* none active; a pointer move while none is active changes neither left nor
\* right; and pointer-up removes every registered pointer-move listener, so
\* that while no thumb is active none is left to change left or right
C20_DragStateMachine ==
    /\ [](activeThumb \in {"none", "left", "right"})
    /\ [][\A which \in {"left", "right"}, v \in clientXToValue :
             (startDragging(which, v) \/ secondPointerDown(which, v))
                => activeThumb' = which]_vars
    /\ [][stopDragging => activeThumb' = "none" /\ listeners' = <<>>]_vars
    /\ [][\A v \in clientXToValue :
             (PointerMove(v) /\ activeThumb = "none")
                => left' = left /\ right' = right]_vars
    /\ [](activeThumb = "none" => listeners = <<>>)

\* a drag that ended: the pointer was released with the left thumb on the
\* pointer's last value, away from min
C20_Witness ==
    /\ lastEvent = "up"
    /\ activeThumb = "none"
    /\ left = pointerValue
    /\ left > props.min

(***************************************************************************)
(* Claims about V2Page                                                     *)
(***************************************************************************)
\* C24: once the renders and the onChange notification that follow a press on
\* a quick-range button have settled, startDate and endDate are the range the
\* button selected
C24_QuickRange ==
    (Settled /\ lastEvent = "quickRange")
        => startDateV2 = quickRange[1] /\ endDateV2 = quickRange[2]

\* C25: the cycle render -> onChange effect -> handleSliderChange -> render
\* comes to rest after finitely many steps, and at rest startDate and endDate
\* are the dates of the slider's left and right values
C25_NotificationLoop ==
    /\ [](Settled => /\ startDateV2 = handleSliderChange(left)
                     /\ endDateV2 = handleSliderChange(right))
    /\ (~Settled ~> Settled)

\* at rest after a quick-range button whose dates the notification replaced
C25_Witness ==
    /\ Settled
    /\ lastEvent = "quickRange"
    /\ startDateV2 # quickRange[1]
    /\ startDateV2 = handleSliderChange(left)

\* C21: once every request has completed and the page is at rest, the
\* categories and the dapps shown for the selected country come from a query
\* for the current date range
C21_Reaggregation ==
    (Settled /\ requests = {} /\ selectedCountryV2 # "")
        => \A view \in CountryViews :
              served[view] # <<>> => served[view] = <<startDateV2, endDateV2>>

(***************************************************************************)
(* Claims about the Dashboard's cards                                      *)
(***************************************************************************)
\* the total of the first of the keys name, 2-letter code that the
\* per-country map has a bucket for
NameThenCode ==
    totalOf(firstBucket(mapCountryData,
               << getCountryName(selectedCountry),
                  getCountryCodeMapping(selectedCountry) >>))

\* C22: for a selected country whose totals are in the per-country map, the
\* total shown is that of the bucket found by trying the country's name
\* first and its 2-letter code second
C22_ResolutionOrder ==
    (selectedCountry # "" /\ mapCountryData # <<>>)
        => /\ countryTotal = NameThenCode
           /\ getSelectedCountryApiRequests = NameThenCode

\* C23: every bucket of the per-country totals of fetchMapCountryData and of
\* MapView.fetchCountryData has the country of at least one returned row as
\* its key and holds the sums over the rows of that country; from no rows come
\* no buckets and a total of 0
C23_BucketsFromRows ==
    /\ \A j \in 1 .. Len(mapCountryData) :
          /\ RowsOfCountry(mapCountryData[j].key) # {}
          /\ mapCountryData[j].total_requests =
                SumField(data, RowsOfCountry(mapCountryData[j].key), "total_requests")
          /\ mapCountryData[j].unique_users =
                SumField(data, RowsOfCountry(mapCountryData[j].key), "unique_users")
          /\ mapCountryData[j].tx_volume_usd =
                SumField(data, RowsOfCountry(mapCountryData[j].key), "tx_volume_usd")
    /\ data = <<>> => totalApiRequests = Number(0)
    /\ LET totals == countryUserTotals(userRows) IN
          /\ \A j \in 1 .. Len(totals) :
                /\ RowsOfCountry(totals[j].key) # {}
                /\ totals[j].users =
                      SumField(data, RowsOfCountry(totals[j].key), "unique_users")
          /\ data = <<>> => totals = <<>> /\ SumUsers(totals) = 0

(***************************************************************************)
(* Further claims about the growth effect                                  *)
(***************************************************************************)
\* C26: after a run of the growth effect whose two queries both succeeded,
\* fastestGrowingPercentage and fastestGrowingCountryPercentage are finite
C26_FiniteGrowth ==
    growth.computed =>
        /\ growth.fastestGrowingPercentage.den # 0
        /\ growth.fastestGrowingCountryPercentage.den # 0

(***************************************************************************)
(* Further claims about the Dashboard's fetch effects                      *)
(***************************************************************************)
\* C27: loading is true exactly while a request of fetchData is awaiting its
\* response: true with one or more outstanding, false with none
C27_LoadingFlag ==
    loading = (\E r \in inflight : r.effect = "fetchData")

\* C28: a run of the growth effect one of whose queries returned an error
\* leaves fastestGrowingCategory, fastestGrowingPercentage,
\* fastestGrowingCountry, fastestGrowingCountryPercentage, baselineApiCalls
\* and percentChangeCalls as they were, and no run of the growth effect
\* changes filteredByCategory or filteredByCountry
C28_UnchangedOnFailure ==
    /\ [][(growthResponse /\ failure'["growth"] # "")
             => /\ growth'.fastestGrowingCategory = growth.fastestGrowingCategory
                /\ growth'.fastestGrowingPercentage = growth.fastestGrowingPercentage
                /\ growth'.fastestGrowingCountry = growth.fastestGrowingCountry
                /\ growth'.fastestGrowingCountryPercentage
                      = growth.fastestGrowingCountryPercentage
                /\ growth'.baselineApiCalls = growth.baselineApiCalls
                /\ growth'.percentChangeCalls = growth.percentChangeCalls]_vars
    /\ [][growthResponse
             => /\ filteredByCategory' = filteredByCategory
                /\ filteredByCountry' = filteredByCountry]_vars

\* a run failed after an earlier one had found a fastest growing category,
\* with a cross-filter set
C28_Witness ==
    /\ failure["growth"] # ""
    /\ growth.computed
    /\ growth.fastestGrowingCategory # ""
    /\ filteredByCountry # ""


\* C29: in every reachable state of the Dashboard the per-chain totals that
\* the Total API Requests, Transaction Volume and Unique Users cards build
\* from rawData hold at most one key, the selected chain, so the rank of
\* each card is 1 or the placeholder '-'.
CardTotals == { apiCardTotals, txCardTotals, usersCardTotals }
C29_SinglePeer ==
    \A totals \in CardTotals :
       /\ Len(totals) <= 1
       /\ \A i \in 1 .. Len(totals) : totals[i].key = chain
       /\ totalsCardRank(totals) \in { Num(1), Null }

\* several date buckets of rawData are in the range: they fold into the one
\* key of the chain, once with requests and once with a total of 0
C29_Witness ==
    /\ Len(cardFiltered) >= 2
    /\ ObjGet(apiCardTotals, chain) > 0 /\ apiCardRank = Num(1)
    /\ Len(txCardTotals) = 1 /\ ObjGet(txCardTotals, chain) = 0 /\ txCardRank = Num(1)


\* C30: baselineApiCalls and percentChangeCalls come from the prior and the
\* current total of exactly the rows of filteredByCountry when it is set and
\* of all rows otherwise; over the same fetched rows, another value of
\* filteredByCategory alone gives the same baselineApiCalls and
\* percentChangeCalls.
BaselineOver(currRows, prevRows) ==
    LET currTotal == SumField(table, currRows, "total_requests")
        prevTotal == SumField(table, prevRows, "total_requests")
    IN  [ baselineApiCalls |-> prevTotal,
          percentChangeCalls |->
             IF prevTotal > 0 THEN Rat((currTotal - prevTotal) * 100, prevTotal)
             ELSE IF currTotal > 0 THEN Rat(100, 1) ELSE Rat(0, 1) ]
C30_BaselineRows ==
    growth.computed =>
      LET expected == BaselineOver(
              SelectedRows(startDate, endDate, "country", filteredByCountry),
              SelectedRows(prior.ps, prior.pe, "country", filteredByCountry))
      IN  /\ growth.baselineApiCalls = expected.baselineApiCalls
          /\ growth.percentChangeCalls = expected.percentChangeCalls
          /\ \A byCategory \in {""} \cup Categories :
                LET other == growthResult(QueryDates(table, startDate, endDate),
                                          QueryDates(table, prior.ps, prior.pe),
                                          byCategory, filteredByCountry)
                IN  /\ other.baselineApiCalls = growth.baselineApiCalls
                    /\ other.percentChangeCalls = growth.percentChangeCalls

\* the effect ran under a category filter over a table whose prior and current
\* periods both have requests of another category: the baseline counts them
C30_Witness ==
    /\ growth.computed /\ filteredByCategory # ""
    /\ growth.fastestGrowingCountry # ""
    /\ \E i \in SelectedRows(prior.ps, prior.pe, "country", "") :
          table[i].category # filteredByCategory /\ table[i].total_requests # Null
    /\ growth.baselineApiCalls
          > SumField(table, SelectedRows(prior.ps, prior.pe, "category", filteredByCategory),
                     "total_requests")

====
